---- MODULE Spec2Model ----
(***************************************************************************)
(* A model of the behaviour the repository's notebooks and build file      *)
(* exercise: the build target `lib` and its select() on a flag, the        *)
(* key-splitting PRNG of jax.random as used by the random-numbers          *)
(* notebook, and the tracing/static-argument/caching behaviour of jax.jit  *)
(* as used by the jitting notebook.                                        *)
(***************************************************************************)
EXTENDS Integers, Sequences, FiniteSets, TLC

VARIABLES
    key,        \* random notebook: the variable `key` (NoKey when unbound)
    new_key,    \* random notebook: the variable `new_key`
    subkey,     \* random notebook: the variable `subkey`
    subkeys,    \* random notebook: the variable `subkeys`
    uses,       \* every call that consumed a key, in order
    seed,       \* the seed literal of the program being run
    pc,         \* position in the cell sequence / loop being run
    enable_jaxlib_build,  \* build: the value of the flag for the next build
    analyzed,   \* build: the analyses of `lib` so far, flag and resolved deps
    cache,      \* jit: the compiled programs, each under its cache key
    calls,      \* jit: every call of a jitted function, in order
    fresh,      \* jit: how many function objects partial/lambda/def created
    loop,       \* jit: the g_inner_jitted* call in progress (NoLoop if none)
    finished,   \* jit: the g_inner_jitted* calls that returned
    global_list,  \* jit notebook: the list log2 appends its argument to
    stdout,     \* jit notebook: what print("printed x:", x) was given, in order
    jaxprs,     \* jit notebook: the jaxprs jax.make_jaxpr returned, in order
    arrays,     \* vectorization notebook: the globals x, w, xs and ws
    outs,       \* vectorization notebook: the cells run since and their outputs
    programs,   \* vectorization notebook: what jitted_batch_convolve compiled
    hk,         \* Haiku notebook: the globals rng_key, params, state and x
    hk_calls,   \* Haiku notebook: every init and apply so far, in order
    np_random,  \* random notebook: the global state behind np.random
    foo_run,    \* random notebook: the call of foo() in progress
    foo_runs    \* random notebook: the calls of foo() that returned

rngvars == <<key, new_key, subkey, subkeys, uses>>
buildvars == <<enable_jaxlib_build, analyzed>>
jitvars == <<cache, calls, fresh, loop, finished>>
effectvars == <<global_list, stdout, jaxprs>>
vmapvars == <<arrays, outs, programs>>
haikuvars == <<hk, hk_calls>>
foovars == <<np_random, foo_run, foo_runs>>
docvars == <<vmapvars, haikuvars, foovars>>
\* what the random-number programs leave alone
othervars == <<buildvars, jitvars, effectvars, docvars>>
vars == <<key, new_key, subkey, subkeys, uses, seed, pc,
          enable_jaxlib_build, analyzed, cache, calls, fresh, loop, finished,
          global_list, stdout, jaxprs, arrays, outs, programs, hk, hk_calls,
          np_random, foo_run, foo_runs>>

(***************************************************************************)
(* 32-bit unsigned words, held as <<high 16 bits, low 16 bits>>.           *)
(***************************************************************************)
Half == 2^16

Word(n) == <<n \div Half, n % Half>>

AddW(a, b) ==
    LET lo == a[2] + b[2]
        hi == a[1] + b[1] + (lo \div Half)
    IN  <<hi % Half, lo % Half>>

RECURSIVE XorBits(_, _, _)
XorBits(a, b, nbits) ==
    IF nbits = 0 THEN 0
    ELSE ((a + b) % 2) + 2 * XorBits(a \div 2, b \div 2, nbits - 1)

\* exclusive or of two 4-bit digits, tabulated
Xor4 == [a \in 0..15 |-> [b \in 0..15 |-> XorBits(a, b, 4)]]

Xor16(a, b) ==
      Xor4[a \div 4096][b \div 4096] * 4096
    + Xor4[(a \div 256) % 16][(b \div 256) % 16] * 256
    + Xor4[(a \div 16) % 16][(b \div 16) % 16] * 16
    + Xor4[a % 16][b % 16]

XorW(a, b) == <<Xor16(a[1], b[1]), Xor16(a[2], b[2])>>

\* rotate_left(x, d) = (x << d) | (x >> (32 - d)) on uint32
rotate_left(x, d) ==
    LET s == IF d >= 16 THEN <<x[2], x[1]>> ELSE x
        r == IF d >= 16 THEN d - 16 ELSE d
        up == 2^r
        dn == 2^(16 - r)
    IN  << ((s[1] * up) % Half) + (s[2] \div dn),
           ((s[2] * up) % Half) + (s[1] \div dn) >>

(***************************************************************************)
(* Threefry-2x32, the hash behind jax.random (20 rounds, 5 key injections) *)
(***************************************************************************)
rotations == << <<13, 15, 26, 6>>, <<17, 29, 16, 24>> >>

\* 0x1BD11BDA, the Threefry key-schedule parity constant
ks_parity == <<7121, 7130>>

apply_round(v, rot) ==
    LET v0 == AddW(v[1], v[2])
    IN  <<v0, XorW(v0, rotate_left(v[2], rot))>>

\* Evaluated(v) is TRUE; it makes v a value before it is passed on
Evaluated(v) == v = v

RECURSIVE apply_rounds(_, _, _)
apply_rounds(v, rots, rnd) ==
    IF rnd > Len(rots) THEN v
    ELSE CHOOSE done \in {apply_rounds(nv, rots, rnd + 1) :
                             nv \in {apply_round(v, rots[rnd])}} : TRUE

RECURSIVE threefry_groups(_, _, _)
threefry_groups(x, sched, grp) ==
    IF grp > 5 THEN x
    ELSE CHOOSE done \in
             {threefry_groups(<< AddW(y[1], sched[(grp % 3) + 1]),
                                 AddW(AddW(y[2], sched[((grp + 1) % 3) + 1]),
                                      Word(grp)) >>, sched, grp + 1) :
              y \in {apply_rounds(x, rotations[((grp - 1) % 2) + 1], 1)}} : TRUE

\* one block: the pair of words (x0, x1) under the key (k0, k1)
threefry2x32_block(k, x0, x1) ==
    CHOOSE done \in
        {threefry_groups(<<AddW(x0, ks[1]), AddW(x1, ks[2])>>, ks, 1) :
         ks \in {<<k[1], k[2], XorW(XorW(k[1], k[2]), ks_parity)>>}} : TRUE

\* threefry_2x32(keypair, count): count is the array 0..n-1 (lax.iota); an odd
\* array is padded with one zero, split in two halves that are hashed
\* pairwise, the outputs concatenated and the pad dropped again.
threefry_2x32(k, n) ==
    LET odd == n % 2
        h == (n + odd) \div 2
        cnt(c) == IF c < n THEN Word(c) ELSE Word(0)
    IN  CHOOSE flat \in
            {[j \in 1..n |-> IF j <= h THEN out[j][1] ELSE out[j - h][2]] :
             out \in {[i \in 1..h |->
                         threefry2x32_block(kv, cnt(i - 1), cnt(h + i - 1))] :
                      kv \in {k}}} : TRUE

(***************************************************************************)
(* jax.random                                                              *)
(***************************************************************************)
NoKey == <<>>

\* random.PRNGKey(seed) for 0 <= seed < 2^31: the array [0 seed]
PRNGKey(sd) == <<Word(0), Word(sd)>>

\* A splitting scheme that hands the parent key on as the first child.
split_keep_parent(k, num) ==
    CHOOSE r \in
        {[keys |-> [i \in 1..num |->
                      IF i = 1 THEN k ELSE <<flat[2 * i - 1], flat[2 * i]>>],
          key  |-> k] :
         flat \in {threefry_2x32(k, 2 * num)}} : TRUE

\* random.split(key, num): num new keys; the key array passed in is returned
\* as the call leaves it (arrays are immutable).
split(k, num) ==
    CHOOSE r \in
        {[keys |-> [i \in 1..num |-> <<flat[2 * i - 1], flat[2 * i]>>],
          key  |-> k] :
         flat \in {threefry_2x32(k, 2 * num)}} : TRUE

\* The 32 random bits per element drawn for a sample of n elements.
random_bits(k, n) == threefry_2x32(k, n)

\* random.normal(key, shape=(n,)): each element is a strictly increasing
\* function (sqrt(2) * erf_inv of a uniform in (-1, 1)) of the top 23 bits of
\* its 32 random bits; the sample is held as those 23 bits.
Mantissa(w) == w[1] * 128 + (w[2] \div 512)

normal(k, n) ==
    CHOOSE r \in
        {[sample |-> [i \in 1..n |-> Mantissa(bits[i])],
          key    |-> k] :
         bits \in {random_bits(k, n)}} : TRUE

(***************************************************************************)
(* Bounds                                                                  *)
(***************************************************************************)
MaxSeed == 6
MaxUses == 3
MaxIter == 6
MaxBuilds == 6
MaxJitCalls == 2
MaxCacheCalls == 4
MaxRuns == 2
MaxSideCalls == 4
MaxPrograms == 2
MaxHaikuCalls == 5
MaxFooRuns == 4
MaxLen == 4

\* the seeds tried for random.PRNGKey: the notebook's 42 and a few small ones
Seeds == (0..MaxSeed) \cup {42}

(***************************************************************************)
(* The statements of the random-numbers notebook.  Each call that consumes *)
(* a key appends to `uses` the key it was given, what it asked for, what   *)
(* it returned, and the key array as the call left it.                     *)
(***************************************************************************)
Use(op, k, n, out, after) ==
    [op |-> op, k |-> k, n |-> n, out |-> out, after |-> after]

\* key = random.PRNGKey(42), for the seed sd in place of 42
CellPRNGKey(sd) ==
    /\ key' = PRNGKey(sd)
    /\ UNCHANGED <<new_key, subkey, subkeys, uses>>

\* A sampler in the style of numpy.random: drawing advances the generator
\* state it was given.
CellNormalKeyStateful ==
    /\ key # NoKey
    /\ \E r \in {normal(key, 1)}, s \in {split(key, 2)} :
           /\ uses' = Append(uses, Use("normal", key, 1, r.sample, s.keys[1]))
           /\ key' = s.keys[1]
    /\ UNCHANGED <<new_key, subkey, subkeys>>

\* print(random.normal(key))
CellNormalKey ==
    /\ key # NoKey
    /\ \E r \in {normal(key, 1)} :
           /\ uses' = Append(uses, Use("normal", key, 1, r.sample, r.key))
           /\ key' = r.key
    /\ UNCHANGED <<new_key, subkey, subkeys>>

\* new_key, subkey = random.split(key)
CellSplitNewKey ==
    /\ key # NoKey
    /\ \E r \in {split(key, 2)} :
           /\ uses' = Append(uses, Use("split", key, 2, r.keys, r.key))
           /\ new_key' = r.keys[1]
           /\ subkey' = r.keys[2]
           /\ key' = r.key
    /\ UNCHANGED subkeys

\* del key
CellDelKey ==
    /\ key # NoKey
    /\ key' = NoKey
    /\ UNCHANGED <<new_key, subkey, subkeys, uses>>

\* normal_sample = random.normal(subkey)
CellNormalSubkey ==
    /\ subkey # NoKey
    /\ \E r \in {normal(subkey, 1)} :
           /\ uses' = Append(uses, Use("normal", subkey, 1, r.sample, r.key))
           /\ subkey' = r.key
    /\ UNCHANGED <<key, new_key, subkeys>>

\* del subkey
CellDelSubkey ==
    /\ subkey # NoKey
    /\ subkey' = NoKey
    /\ UNCHANGED <<key, new_key, subkeys, uses>>

\* key = new_key
CellKeyNewKey ==
    /\ new_key # NoKey
    /\ key' = new_key
    /\ UNCHANGED <<new_key, subkey, subkeys, uses>>

\* key, subkey = random.split(key)
CellSplitKey ==
    /\ key # NoKey
    /\ \E r \in {split(key, 2)} :
           /\ uses' = Append(uses, Use("split", key, 2, r.keys, r.key))
           /\ key' = r.keys[1]
           /\ subkey' = r.keys[2]
    /\ UNCHANGED <<new_key, subkeys>>

\* key, *forty_two_subkeys = random.split(key, num=43)
CellSplit43 ==
    /\ key # NoKey
    /\ \E r \in {split(key, 43)} :
           /\ uses' = Append(uses, Use("split", key, 43, r.keys, r.key))
           /\ key' = r.keys[1]
    /\ UNCHANGED <<new_key, subkey, subkeys>>

\* subkeys = random.split(key, 3)
CellSplit3 ==
    /\ key # NoKey
    /\ \E r \in {split(key, 3)} :
           /\ uses' = Append(uses, Use("split", key, 3, r.keys, r.key))
           /\ subkeys' = r.keys
           /\ key' = r.key
    /\ UNCHANGED <<new_key, subkey>>

\* sequence = np.stack([random.normal(subkey) for subkey in subkeys])
CellNormalSubkeys ==
    /\ subkeys # <<>>
    /\ uses' = uses \o [i \in 1..Len(subkeys) |->
                   LET r == normal(subkeys[i], 1)
                   IN  Use("normal", subkeys[i], 1, r.sample, r.key)]
    /\ UNCHANGED <<key, new_key, subkey, subkeys>>

\* print("all at once: ", random.normal(key, shape=(3,)))
CellNormalKey3 ==
    /\ key # NoKey
    /\ \E r \in {normal(key, 3)} :
           /\ uses' = Append(uses, Use("normal", key, 3, r.sample, r.key))
           /\ key' = r.key
    /\ UNCHANGED <<new_key, subkey, subkeys>>

(***************************************************************************)
(* Haiku: forward = hk.transform(lambda x: HkRandomNest()(x)).  Inside     *)
(* apply(params, x, rng) the keys come from hk.next_rng_key(), which       *)
(* splits the key sequence started from rng.                               *)
(***************************************************************************)
next_rng_key(seq) ==
    CHOOSE nxt \in {[seq |-> r.keys[1], key |-> r.keys[2]] : r \in {split(seq, 2)}} :
        TRUE

\* jax.random.bernoulli(key, 1.0 - rate, shape=x.shape), rate = 0.5, x a scalar
bernoulli(k) == Mantissa(random_bits(k, 1)[1]) < 2^22

(***************************************************************************)
(* The build file: the rule `lib` and the select() in its deps.  A label   *)
(* //pkg:name is held as <<pkg, name>>; //jaxlib is //jaxlib:jaxlib.       *)
(***************************************************************************)
Label(pkg, name) == <<pkg, name>>

conditions_default == Label("conditions", "default")

jax_enable_jaxlib_build == Label("jax", "enable_jaxlib_build")

jax_version == Label("jax", "version")

\* the list under "//jax:enable_jaxlib_build"
jaxlib_deps ==
    { Label("jaxlib", "jaxlib"),
      Label("jaxlib", "cpu_feature_guard"),
      Label("jaxlib", "utils"),
      Label("jaxlib/mlir", "builtin_dialect"),
      Label("jaxlib/mlir", "chlo_dialect"),
      Label("jaxlib/mlir", "func_dialect"),
      Label("jaxlib/mlir", "ir"),
      Label("jaxlib/mlir", "mhlo_dialect"),
      Label("jaxlib/mlir", "ml_program_dialect"),
      Label("jaxlib/mlir", "pass_manager"),
      Label("jaxlib/mlir", "sparse_tensor_dialect"),
      Label("jaxlib/mlir", "stablehlo_dialect") }

\* select({condition: value, ...}) under a configuration, given as the set of
\* conditions that hold in it: the value of the condition that holds, and
\* the value of //conditions:default when none does.
select(branches, config) ==
    LET matching == {b \in branches :
                        b.condition # conditions_default /\ b.condition \in config}
        default == {b \in branches : b.condition = conditions_default}
    IN  IF matching # {}
        THEN UNION {b.value : b \in matching}
        ELSE UNION {b.value : b \in default}

\* A deps attribute that lists the jaxlib targets outside any select().
lib_deps_unconditional(config) == {jax_version} \cup jaxlib_deps

\* deps = ["//jax:version"] + select({...})
lib_deps(config) ==
    {jax_version} \cup
    select({ [condition |-> jax_enable_jaxlib_build, value |-> jaxlib_deps],
             [condition |-> conditions_default, value |-> {}] },
           config)

\* the configuration a build runs in: the conditions that hold for the flag
Configuration(flag) == IF flag THEN {jax_enable_jaxlib_build} ELSE {}

\* the flag is given on the command line of the next build
BuildSetFlag ==
    /\ \E flag \in BOOLEAN :
           /\ flag # enable_jaxlib_build
           /\ enable_jaxlib_build' = flag
    /\ UNCHANGED analyzed

\* a build analyses `lib` and resolves its deps under the flag
BuildAnalyze ==
    /\ Len(analyzed) < MaxBuilds
    /\ analyzed' = Append(analyzed,
                      [flag |-> enable_jaxlib_build,
                       deps |-> lib_deps(Configuration(enable_jaxlib_build))])
    /\ UNCHANGED enable_jaxlib_build

(***************************************************************************)
(* Python values as jax.jit sees them.  A value is an integer known to     *)
(* Python (deps = {}) or a tracer: it stands for c + sum of co[a] * a over *)
(* the traced arguments a, depends on the arguments in deps, and has no    *)
(* concrete value while the function is traced.                            *)
(***************************************************************************)
ArgNames == {"x", "n", "prev_i"}

Const(k) == [c |-> k, co |-> [a \in ArgNames |-> 0], deps |-> {}]

Tracer(a) ==
    [c |-> 0, co |-> [b \in ArgNames |-> IF b = a THEN 1 ELSE 0], deps |-> {a}]

\* u + v
Add(u, v) ==
    [c |-> u.c + v.c,
     co |-> [a \in ArgNames |-> u.co[a] + v.co[a]],
     deps |-> u.deps \cup v.deps]

\* u * v, one of the two a Python number
Mul(u, v) ==
    IF u.deps = {}
    THEN [c |-> u.c * v.c, co |-> [a \in ArgNames |-> u.c * v.co[a]],
          deps |-> v.deps]
    ELSE [c |-> u.c * v.c, co |-> [a \in ArgNames |-> u.co[a] * v.c],
          deps |-> u.deps \cup v.deps]

\* u < v: a Python bool when both are concrete (b), a traced bool[] otherwise
Less(u, v) == [b |-> u.c < v.c, deps |-> u.deps \cup v.deps]

\* the result of an elementwise array expression over u (jnp.where, jnp.exp,
\* *, -): an array that depends on what u depends on; its numbers are not
\* modelled
Elementwise(u) == [c |-> 0, co |-> [a \in ArgNames |-> 0], deps |-> u.deps]

\* how a Python call ends: it returns a value, or bool() of a tracer raises
Return(v) == [status |-> "ok", val |-> v, names |-> {}]

ConcretizationTypeError(names) ==
    [status |-> "ConcretizationTypeError", val |-> Const(0), names |-> names]

(***************************************************************************)
(* The functions of the jitting notebook                                   *)
(***************************************************************************)
\* def selu(x, alpha=1.67, lambda_=1.05)
selu(x) == Return(Elementwise(x))

\* def f(x): if x > 0: return x  else: return 2 * x
f(x) ==
    LET cond == Less(Const(0), x)
    IN  IF cond.deps # {} THEN ConcretizationTypeError(cond.deps)
        ELSE IF cond.b THEN Return(x)
        ELSE Return(Mul(Const(2), x))

\* while i < n: i += 1;  return x + i
RECURSIVE g_while(_, _, _)
g_while(i, x, n) ==
    LET cond == Less(i, n)
    IN  IF cond.deps # {} THEN ConcretizationTypeError(cond.deps)
        ELSE IF cond.b
        THEN LET ni == Add(i, Const(1))
             IN  IF Evaluated(ni) THEN g_while(ni, x, n) ELSE Return(ni)
        ELSE Return(Add(x, i))

\* def g(x, n): i = 0; while ...
g(x, n) == g_while(Const(0), x, n)

\* def g_jit_decorated(x, n), the function under the decorator
g_jit_decorated(x, n) == g_while(Const(0), x, n)

\* def loop_body(prev_i), the function under @jax.jit
loop_body(prev_i) == Return(Add(prev_i, Const(1)))

\* def unjitted_loop_body(prev_i)
unjitted_loop_body(prev_i) == Return(Add(prev_i, Const(1)))

(***************************************************************************)
(* log2 and log2_with_print, statement by statement.  A statement is a     *)
(* Python side effect on the value of a name, or a JAX operation that      *)
(* binds its result to a name.                                             *)
(***************************************************************************)
Stmt(kind, op, ins, target) ==
    [kind |-> kind, op |-> op, ins |-> ins, target |-> target]

\* log2 as a pure function: the same operations and no global_list.append
log2_pure ==
    << Stmt("jax", "log", <<"x">>, "ln_x"),
       Stmt("jax", "log", <<"2.0">>, "ln_2"),
       Stmt("jax", "div", <<"ln_x", "ln_2">>, "return") >>

\* def log2(x)
log2 ==
    << Stmt("effect", "global_list.append", <<"x">>, ""),
       Stmt("jax", "log", <<"x">>, "ln_x"),
       Stmt("jax", "log", <<"2.0">>, "ln_2"),
       Stmt("jax", "div", <<"ln_x", "ln_2">>, "return") >>

\* def log2_with_print(x)
log2_with_print ==
    << Stmt("effect", "print", <<"x">>, ""),
       Stmt("jax", "log", <<"x">>, "ln_x"),
       Stmt("jax", "log", <<"2.0">>, "ln_2"),
       Stmt("jax", "div", <<"ln_x", "ln_2">>, "return") >>

Body(code) == IF code = "log2" THEN log2 ELSE log2_with_print

\* the variables of a jaxpr, in the order they are bound
JaxprVarNames == <<"a", "b", "c", "d", "e", "f">>

\* what a name is in the jaxpr: the variable bound to it, or a literal
Atom(atoms, name) == IF name \in DOMAIN atoms THEN atoms[name] ELSE name

\* One statement, run by Python with the argument x.  A side effect happens,
\* on whatever x is.  A JAX operation met while tracing is recorded as an
\* equation of the jaxpr; met outside a trace it is computed at once.
RunStmt(s, x, tracing, acc) ==
    IF s.kind = "effect"
    THEN [acc EXCEPT !.effects = Append(@, [what |-> s.op, seen |-> x])]
    ELSE IF tracing
    THEN LET outvar == JaxprVarNames[Len(acc.jaxpr) + 2]
         IN  [acc EXCEPT
                 !.jaxpr = Append(@, [prim |-> s.op,
                                      ins |-> [i \in 1..Len(s.ins) |->
                                                  Atom(acc.atoms, s.ins[i])],
                                      out |-> outvar]),
                 !.atoms = (s.target :> outvar) @@ @]
    ELSE acc

RECURSIVE RunStmts(_, _, _, _, _)
RunStmts(stmts, at, x, tracing, acc) ==
    IF at > Len(stmts) THEN acc
    ELSE LET nacc == RunStmt(stmts[at], x, tracing, acc)
         IN  IF Evaluated(nacc) THEN RunStmts(stmts, at + 1, x, tracing, nacc)
             ELSE nacc

\* the function run in Python on x: the side effects it had and, when it was
\* traced, the jaxpr recorded for it
RunPython(stmts, x, tracing) ==
    RunStmts(stmts, 1, x, tracing,
             [atoms |-> ("x" :> "a"), effects |-> <<>>, jaxpr |-> <<>>])

\* the values a side effect `what` was given, in order
Seen(effects, what) ==
    LET idx == {i \in 1..Len(effects) : effects[i].what = what}
        RECURSIVE Take(_)
        Take(i) == IF i > Len(effects) THEN <<>>
                   ELSE IF i \in idx THEN <<effects[i].seen>> \o Take(i + 1)
                   ELSE Take(i + 1)
    IN  Take(1)

\* A function object: the code it runs and which object it is.  A def at
\* module level is evaluated once (object 0); partial(...) and lambda make a
\* new object each time they are evaluated.
FunctionObject(code, id) == [code |-> code, id |-> id]

Params(code) ==
    CASE code = "selu" -> <<"x">>
      [] code \in {"log2", "log2_with_print"} -> <<"x">>
      [] code = "f" -> <<"x">>
      [] code \in {"g", "g_jit_decorated"} -> <<"x", "n">>
      [] code \in {"loop_body", "unjitted_loop_body", "partial"} -> <<"prev_i">>
      [] code = "lambda" -> <<"x">>

\* calling the function object with the values args
PyCall(code, args) ==
    CASE code = "selu" -> selu(args[1])
      [] code \in {"log2", "log2_with_print"} -> Return(Elementwise(args[1]))
      [] code = "f" -> f(args[1])
      [] code = "g" -> g(args[1], args[2])
      [] code = "g_jit_decorated" -> g_jit_decorated(args[1], args[2])
      [] code = "loop_body" -> loop_body(args[1])
      [] code \in {"unjitted_loop_body", "partial", "lambda"} ->
             unjitted_loop_body(args[1])

\* the un-jitted call on integers
Unjitted(code, ints) == PyCall(code, [i \in 1..Len(ints) |-> Const(ints[i])])

(***************************************************************************)
(* jax.jit: trace on a cache miss, compile, cache, execute                 *)
(***************************************************************************)
\* an argument as passed: its abstract value (shape and type) and its value
Scalar(v) == [aval |-> [shape |-> <<>>, dtype |-> "int32"], v |-> v]

\* jnp.arange(n): an int32 array of shape (n,), determined by n
arange(n) == [aval |-> [shape |-> <<n>>, dtype |-> "int32"], v |-> n]

\* static_argnums=nums, as names of parameters
static_argnums(code, nums) == {Params(code)[i + 1] : i \in nums}

StaticOf(code, static_names, actuals) ==
    {<<Params(code)[i], actuals[i].v>> :
        i \in {j \in 1..Len(actuals) : Params(code)[j] \in static_names}}

AvalsOf(code, static_names, actuals) ==
    {<<Params(code)[i], actuals[i].aval>> :
        i \in {j \in 1..Len(actuals) : Params(code)[j] \notin static_names}}

\* A cache key that leaves the values of the static arguments out.
JitKeyWithoutStatics(fn, static_names, actuals) ==
    [fn |-> fn, static_names |-> static_names, static |-> {},
     avals |-> AvalsOf(fn.code, static_names, actuals)]

\* the cache key of a call: the function object, which arguments are static,
\* the values of the static arguments, the shapes and types of the others
JitKey(fn, static_names, actuals) ==
    [fn |-> fn, static_names |-> static_names,
     static |-> StaticOf(fn.code, static_names, actuals),
     avals |-> AvalsOf(fn.code, static_names, actuals)]

\* the values the function is traced with: static arguments as they are,
\* every other argument a tracer
TraceArgs(code, static_names, actuals) ==
    [i \in 1..Len(actuals) |->
        IF Params(code)[i] \in static_names
        THEN Const(actuals[i].v)
        ELSE Tracer(Params(code)[i])]

\* running the compiled program exe on the arguments
RECURSIVE ExecuteFrom(_, _, _, _)
ExecuteFrom(exe, code, actuals, arg) ==
    IF arg > Len(actuals) THEN exe.c
    ELSE exe.co[Params(code)[arg]] * actuals[arg].v
         + ExecuteFrom(exe, code, actuals, arg + 1)

Execute(exe, code, actuals) == ExecuteFrom(exe, code, actuals, 1)

NoResult == <<>>

\* jax.jit(fn, static...)(*actuals) with the cache c
jit_call(c, fn, static_names, actuals) ==
    LET k == JitKey(fn, static_names, actuals)
        found == {e \in c : e.key = k}
    IN  IF found # {}
        THEN [cache |-> c, traced |-> FALSE, compiled |-> FALSE,
              status |-> "ok", names |-> {},
              out |-> Execute((CHOOSE e \in found : TRUE).exe, fn.code, actuals)]
        ELSE LET t == PyCall(fn.code, TraceArgs(fn.code, static_names, actuals))
             IN  IF t.status # "ok"
                 THEN [cache |-> c, traced |-> TRUE, compiled |-> FALSE,
                       status |-> t.status, names |-> t.names,
                       out |-> NoResult]
                 ELSE [cache |-> c \cup {[key |-> k, exe |-> t.val]},
                       traced |-> TRUE, compiled |-> TRUE,
                       status |-> "ok", names |-> {},
                       out |-> Execute(t.val, fn.code, actuals)]

\* a call through the notebook's name `via`, logged in calls
JitCall(via, fn, static_names, actuals, run) ==
    \E r \in {jit_call(cache, fn, static_names, actuals)} :
        /\ cache' = r.cache
        /\ calls' = Append(calls,
               [via |-> via, run |-> run,
                args |-> [i \in 1..Len(actuals) |-> actuals[i].v],
                avals |-> AvalsOf(fn.code, static_names, actuals),
                static |-> StaticOf(fn.code, static_names, actuals),
                traced |-> r.traced, compiled |-> r.compiled,
                status |-> r.status, names |-> r.names, out |-> r.out])

(***************************************************************************)
(* The calls of the jitting notebook                                       *)
(***************************************************************************)
\* selu with def selu run again before the call: a new function object
CallSeluJitRedefined(n) ==
    /\ JitCall("selu_jit", FunctionObject("selu", fresh + 1), {}, <<arange(n)>>, 0)
    /\ fresh' = fresh + 1
    /\ UNCHANGED <<loop, finished>>

\* selu_jit = jax.jit(selu);  selu_jit(x) for x = jnp.arange(n)
CallSeluJit(n) ==
    /\ JitCall("selu_jit", FunctionObject("selu", 0), {}, <<arange(n)>>, 0)
    /\ UNCHANGED <<fresh, loop, finished>>

\* f under jax.jit(f, static_argnums=0), called through f_jit
CallFJitStatic(x) ==
    /\ JitCall("f_jit", FunctionObject("f", 0), static_argnums("f", {0}),
               <<Scalar(x)>>, 0)
    /\ UNCHANGED <<fresh, loop, finished>>

\* f_jit = jax.jit(f);  f_jit(x)
CallFJit(x) ==
    /\ JitCall("f_jit", FunctionObject("f", 0), {}, <<Scalar(x)>>, 0)
    /\ UNCHANGED <<fresh, loop, finished>>

\* g_jit = jax.jit(g);  g_jit(x, n)
CallGJit(x, n) ==
    /\ JitCall("g_jit", FunctionObject("g", 0), {}, <<Scalar(x), Scalar(n)>>, 0)
    /\ UNCHANGED <<fresh, loop, finished>>

\* f_jit_correct = jax.jit(f, static_argnums=0);  f_jit_correct(x)
CallFJitCorrect(x) ==
    /\ JitCall("f_jit_correct", FunctionObject("f", 0),
               static_argnums("f", {0}), <<Scalar(x)>>, 0)
    /\ UNCHANGED <<fresh, loop, finished>>

\* g under jax.jit(g, static_argnames=['x']), called through g_jit_correct
CallGJitCorrectStaticX(x, n) ==
    /\ JitCall("g_jit_correct", FunctionObject("g", 0), {"x"},
               <<Scalar(x), Scalar(n)>>, 0)
    /\ UNCHANGED <<fresh, loop, finished>>

\* g_jit_correct = jax.jit(g, static_argnames=['n']);  g_jit_correct(x, n)
CallGJitCorrect(x, n) ==
    /\ JitCall("g_jit_correct", FunctionObject("g", 0), {"n"},
               <<Scalar(x), Scalar(n)>>, 0)
    /\ UNCHANGED <<fresh, loop, finished>>

\* @partial(jax.jit, static_argnames=['n']) def g_jit_decorated(x, n)
CallGJitDecorated(x, n) ==
    /\ JitCall("g_jit_decorated", FunctionObject("g_jit_decorated", 0), {"n"},
               <<Scalar(x), Scalar(n)>>, 0)
    /\ UNCHANGED <<fresh, loop, finished>>

\* a Python float argument
FloatScalar(v) == [aval |-> [shape |-> <<>>, dtype |-> "float32"], v |-> v]

\* print(jax.make_jaxpr(log2)(3.0)), and the same for log2_with_print:
\* the function is traced, with whatever side effects that has
MakeJaxpr(code, x) ==
    /\ \E r \in {RunPython(Body(code), Tracer("x"), TRUE)} :
           /\ jaxprs' = Append(jaxprs, [code |-> code, arg |-> x, jaxpr |-> r.jaxpr])
           /\ global_list' = global_list \o Seen(r.effects, "global_list.append")
           /\ stdout' = stdout \o Seen(r.effects, "print")
    /\ UNCHANGED jitvars

\* log2 or log2_with_print under jax.jit: Python runs the function, side
\* effects and all, when the call traces it, and not when the call is served
\* from the cache
CallJitted(code, actual) ==
    /\ JitCall(code, FunctionObject(code, 0), {}, <<actual>>, 0)
    /\ \E r \in {RunPython(IF calls'[Len(calls')].traced THEN Body(code) ELSE <<>>,
                            Tracer("x"), TRUE)} :
           /\ global_list' = global_list \o Seen(r.effects, "global_list.append")
           /\ stdout' = stdout \o Seen(r.effects, "print")
    /\ UNCHANGED <<fresh, loop, finished, jaxprs>>

(***************************************************************************)
(* g_inner_jitted and its three variants: i = 0; while i < n: i = <a call  *)
(* of a jitted loop body>(i); return x + i.  One action per iteration.     *)
(***************************************************************************)
NoLoop == [via |-> "none", x |-> 0, n |-> 0, i |-> 0, run |-> 0]

LoopFunctions ==
    {"g_inner_jitted", "g_inner_jitted_partial", "g_inner_jitted_lambda",
     "g_inner_jitted_normal"}

\* the call g_inner_jitted*(x, n) starts: i = 0
GInnerStart(via, x, n) ==
    /\ loop = NoLoop
    /\ loop' = [via |-> via, x |-> x, n |-> n, i |-> 0,
                run |-> Len(finished) + 1]
    /\ UNCHANGED <<cache, calls, fresh, finished>>

\* while i < n, and the assignment of the body's result to i
Iterating(via) ==
    /\ loop.via = via
    /\ loop.i < loop.n
    /\ loop' = [loop EXCEPT !.i = calls'[Len(calls')].out]
    /\ UNCHANGED finished

\* i = loop_body(i)
IterGInnerJitted ==
    /\ JitCall("g_inner_jitted", FunctionObject("loop_body", 0), {},
               <<Scalar(loop.i)>>, loop.run)
    /\ Iterating("g_inner_jitted")
    /\ UNCHANGED fresh

\* i = jax.jit(partial(unjitted_loop_body))(i)
IterGInnerJittedPartial ==
    /\ JitCall("g_inner_jitted_partial", FunctionObject("partial", fresh + 1), {},
               <<Scalar(loop.i)>>, loop.run)
    /\ Iterating("g_inner_jitted_partial")
    /\ fresh' = fresh + 1

\* i = jax.jit(lambda x: unjitted_loop_body(x))(i)
IterGInnerJittedLambda ==
    /\ JitCall("g_inner_jitted_lambda", FunctionObject("lambda", fresh + 1), {},
               <<Scalar(loop.i)>>, loop.run)
    /\ Iterating("g_inner_jitted_lambda")
    /\ fresh' = fresh + 1

\* the loop of g_inner_jitted_normal with a partial made in each iteration
IterGInnerJittedNormalPartial ==
    /\ JitCall("g_inner_jitted_normal", FunctionObject("partial", fresh + 1), {},
               <<Scalar(loop.i)>>, loop.run)
    /\ Iterating("g_inner_jitted_normal")
    /\ fresh' = fresh + 1

\* i = jax.jit(unjitted_loop_body)(i)
IterGInnerJittedNormal ==
    /\ JitCall("g_inner_jitted_normal", FunctionObject("unjitted_loop_body", 0), {},
               <<Scalar(loop.i)>>, loop.run)
    /\ Iterating("g_inner_jitted_normal")
    /\ UNCHANGED fresh

\* the loop ends: return x + i
GInnerReturn ==
    /\ loop # NoLoop
    /\ ~(loop.i < loop.n)
    /\ finished' = Append(finished,
                      [via |-> loop.via, x |-> loop.x, n |-> loop.n,
                       run |-> loop.run, out |-> loop.x + loop.i])
    /\ loop' = NoLoop
    /\ UNCHANGED <<cache, calls, fresh>>

(***************************************************************************)
(* The arrays of the vectorization notebook.  An array is its shape and    *)
(* its elements in row-major order.  Under jax.jit an array is staged: it  *)
(* has a shape and, for elements, the expression that will compute them.   *)
(* Under jax.vmap an array carries bdim, the position of the batch axis    *)
(* that the function being mapped does not see.  Elements are integers:    *)
(* every sum and product is exact.                                         *)
(***************************************************************************)
\* in_axes=[0, None]: the argument has no batch axis
None == -1

Array(shape, data) ==
    [shape |-> shape, data |-> data, tree |-> <<>>, bdim |-> None, raised |-> ""]

Staged(shape, tree) ==
    [shape |-> shape, data |-> <<>>, tree |-> tree, bdim |-> None, raised |-> ""]

\* a call that ended in an exception
Raise(what) ==
    [shape |-> <<>>, data |-> <<>>, tree |-> <<>>, bdim |-> None, raised |-> what]

IsStaged(a) == Len(a.tree) > 0

BatchTracer(a, d) == [a EXCEPT !.bdim = d]

Unbatched(a) == [a EXCEPT !.bdim = None]

\* the expression of a staged array; any other array is a constant of the trace
TreeOf(a) == IF IsStaged(a) THEN a.tree ELSE <<"const", a>>

Size(shape) ==
    IF Len(shape) = 0 THEN 1
    ELSE IF Len(shape) = 1 THEN shape[1]
    ELSE shape[1] * shape[2]

\* the index (from 0) of the k-th element in row-major order, and back
Index(shape, k) ==
    IF Len(shape) = 0 THEN <<>>
    ELSE IF Len(shape) = 1 THEN <<k - 1>>
    ELSE <<(k - 1) \div shape[2], (k - 1) % shape[2]>>

Flat(shape, idx) ==
    IF Len(shape) = 0 THEN 1
    ELSE IF Len(shape) = 1 THEN idx[1] + 1
    ELSE idx[1] * shape[2] + idx[2] + 1

At(a, idx) == a.data[Flat(a.shape, idx)]

Remove(t, axis) ==
    [i \in 1..(Len(t) - 1) |-> IF i <= axis THEN t[i] ELSE t[i + 1]]

Insert(t, axis, v) ==
    [i \in 1..(Len(t) + 1) |->
        IF i <= axis THEN t[i] ELSE IF i = axis + 1 THEN v ELSE t[i - 1]]

\* the shape the mapped function sees
LogicalShape(a) == IF a.bdim = None THEN a.shape ELSE Remove(a.shape, a.bdim)

\* the axis of the stored array that the mapped function calls `axis`
PhysicalAxis(axis, bdim) == IF bdim # None /\ bdim <= axis THEN axis + 1 ELSE axis

RECURSIVE SumSeq(_)
SumSeq(q) == IF Len(q) = 0 THEN 0 ELSE q[1] + SumSeq(Tail(q))

\* lax.slice_in_dim on a stored array
slice_p(a, lo, hi, axis) ==
    LET shape == [a.shape EXCEPT ![axis + 1] = hi - lo]
    IN  IF IsStaged(a)
        THEN Staged(shape, <<"slice", lo, hi, axis, a.tree>>)
        ELSE Array(shape,
            [e \in 1..Size(shape) |->
                LET idx == Index(shape, e)
                IN  At(a, [idx EXCEPT ![axis + 1] = @ + lo])])

\* a[lo:hi] along `axis`; the batch axis is left whole
slice_in_dim(a, lo, hi, axis) ==
    IF a.bdim = None
    THEN slice_p(a, lo, hi, axis)
    ELSE BatchTracer(slice_p(Unbatched(a), lo, hi, PhysicalAxis(axis, a.bdim)),
                     a.bdim)

\* element k along the contracted axis c, in row `row` of the other axis
Operand(a, c, row, k) ==
    IF Len(a.shape) = 1 THEN At(a, <<k>>)
    ELSE IF c = 1 THEN At(a, <<row, k>>)
    ELSE At(a, <<k, row>>)

\* lax.dot_general on stored arrays: axis ca of a is contracted with axis cb
\* of b; the other axis of an operand of rank 2 is kept
dot_p(a, b, ca, cb) ==
    LET shape == IF Len(a.shape) = 2 THEN <<a.shape[2 - ca]>>
                 ELSE IF Len(b.shape) = 2 THEN <<b.shape[2 - cb]>>
                 ELSE <<>>
    IN  IF IsStaged(a) \/ IsStaged(b)
        THEN Staged(shape, <<"dot", ca, cb, TreeOf(a), TreeOf(b)>>)
        ELSE Array(shape,
            [e \in 1..Size(shape) |->
                LET idx == Index(shape, e)
                    row == IF Len(idx) = 0 THEN 0 ELSE idx[1]
                IN  SumSeq([k \in 1..a.shape[ca + 1] |->
                               Operand(a, ca, row, k - 1) * Operand(b, cb, row, k - 1)])])

\* jnp.dot of two vectors; with a batch axis the result has it in front
dot_general(a, b, ca, cb) ==
    IF a.bdim = None /\ b.bdim = None
    THEN dot_p(a, b, ca, cb)
    ELSE BatchTracer(dot_p(Unbatched(a), Unbatched(b),
                           PhysicalAxis(ca, a.bdim), PhysicalAxis(cb, b.bdim)), 0)

\* the arrays of a list joined along a new axis of the stored arrays
stack_p(list, axis) ==
    LET shape == Insert(list[1].shape, axis, Len(list))
    IN  IF \E i \in 1..Len(list) : IsStaged(list[i])
        THEN Staged(shape, <<"stack", axis, [i \in 1..Len(list) |-> TreeOf(list[i])]>>)
        ELSE Array(shape,
            [e \in 1..Size(shape) |->
                LET idx == Index(shape, e)
                IN  At(list[idx[axis + 1] + 1], Remove(idx, axis))])

\* jnp.stack(list, axis); batched elements keep their batch axis in front
stack(list, axis) ==
    IF Len(list) = 0 THEN Raise("ValueError")
    ELSE IF \A i \in 1..Len(list) : list[i].bdim = None THEN stack_p(list, axis)
    ELSE BatchTracer(stack_p([i \in 1..Len(list) |-> Unbatched(list[i])], axis + 1), 0)

\* jnp.array(list)
array(list) == IF Len(list) = 0 THEN Array(<<0>>, <<>>) ELSE stack(list, 0)

\* jnp.transpose of a matrix
transpose(a) ==
    LET shape == <<a.shape[2], a.shape[1]>>
    IN  IF IsStaged(a)
        THEN Staged(shape, <<"transpose", a.tree>>)
        ELSE Array(shape,
            [e \in 1..Size(shape) |->
                LET idx == Index(shape, e)
                IN  At(a, <<idx[2], idx[1]>>)])

\* an array repeated `size` times along a new axis
broadcast(a, size, axis) ==
    LET shape == Insert(a.shape, axis, size)
    IN  IF IsStaged(a)
        THEN Staged(shape, <<"broadcast", size, axis, a.tree>>)
        ELSE Array(shape,
            [e \in 1..Size(shape) |->
                LET idx == Index(shape, e)
                IN  At(a, Remove(idx, axis))])

\* a * b, elementwise
mul(a, b) == Array(a.shape,
            [e \in 1..Size(a.shape) |->
                LET idx == Index(a.shape, e)
                IN  At(a, idx) * At(b, idx)])

\* jnp.sum(a, axis)
sum(a, axis) ==
    Array(Remove(a.shape, axis),
            [e \in 1..Size(Remove(a.shape, axis)) |->
                LET idx == Index(Remove(a.shape, axis), e)
                IN  SumSeq([k \in 1..a.shape[axis + 1] |-> At(a, Insert(idx, axis, k - 1))])])

\* a[i]
getitem(a, i) == Array(Remove(a.shape, 0),
            [e \in 1..Size(Remove(a.shape, 0)) |->
                LET idx == Index(Remove(a.shape, 0), e)
                IN  At(a, Insert(idx, 0, i))])

\* len(a)
len(a) == LogicalShape(a)[1]

\* running a staged expression on the arguments of a call
RECURSIVE Eval(_, _)
Eval(tree, args) ==
    CASE tree[1] = "arg" -> args[tree[2]]
      [] tree[1] = "const" -> tree[2]
      [] tree[1] = "slice" ->
            slice_in_dim(Eval(tree[5], args), tree[2], tree[3], tree[4])
      [] tree[1] = "dot" ->
            dot_general(Eval(tree[4], args), Eval(tree[5], args), tree[2], tree[3])
      [] tree[1] = "stack" ->
            stack([i \in 1..Len(tree[3]) |-> Eval(tree[3][i], args)], tree[2])
      [] tree[1] = "transpose" -> transpose(Eval(tree[2], args))
      [] tree[1] = "broadcast" -> broadcast(Eval(tree[4], args), tree[2], tree[3])

\* the call fun(a, b) of a function of the notebook, given by its name
RECURSIVE Apply(_, _, _)

\* jax.vmap(fun, in_axes, out_axes)(a, b): fun runs once, on arguments that
\* carry their batch axis, and the batch axis of the result goes to out_axes
vmap(fun, in_axes, out_axes, a, b) ==
    LET sizes == {<<a, b>>[i].shape[in_axes[i] + 1] :
                     i \in {j \in 1..2 : in_axes[j] # None}}
        out == Apply(fun, BatchTracer(a, in_axes[1]), BatchTracer(b, in_axes[2]))
    IN  IF Cardinality(sizes) # 1 THEN Raise("ValueError")
        ELSE IF out.bdim = None
        THEN broadcast(out, CHOOSE size \in sizes : TRUE, out_axes)
        ELSE IF out.bdim = out_axes THEN Unbatched(out)
        ELSE transpose(Unbatched(out))

\* what jax.jit stages out of fun for arguments of these shapes
trace(fun, a, b) ==
    TreeOf(Apply(fun, Staged(LogicalShape(a), <<"arg", 1>>),
                      Staged(LogicalShape(b), <<"arg", 2>>)))

\* jax.jit(fun)(a, b)
jit(fun, a, b) == Eval(trace(fun, a, b), <<a, b>>)

\* convolve with one window fewer: for i in range(1, len(x)-2)
convolve_stops_early(x, w) ==
    LET output == [i \in 1..(len(x) - 3) |->
                      dot_general(slice_in_dim(x, i - 1, i + 2, 0), w, 0, 0)]
    IN  array(output)

\* def convolve(x, w)
convolve(x, w) ==
    LET output == [i \in 1..(len(x) - 2) |->
                      dot_general(slice_in_dim(x, i - 1, i + 2, 0), w, 0, 0)]
    IN  array(output)

\* def manually_batched_convolve(xs, ws)
manually_batched_convolve(xs, ws) ==
    LET output == [i \in 1..xs.shape[1] |->
                      convolve(getitem(xs, i - 1), getitem(ws, i - 1))]
    IN  stack(output, 0)

\* def manually_vectorized_convolve(xs, ws)
manually_vectorized_convolve(xs, ws) ==
    LET output == [i \in 1..(xs.shape[Len(xs.shape)] - 2) |->
                      sum(mul(slice_in_dim(xs, i - 1, i + 2, 1), ws), 1)]
    IN  stack(output, 1)

\* jax.vmap(convolve, in_axes=1): the batch axis of the result stays in front
auto_batch_convolve_out_axes_0(xst, wst) == vmap("convolve", <<1, 1>>, 0, xst, wst)

\* jax.vmap(convolve) given one w for the whole batch
batch_convolve_in_axes_0(xs, w) == vmap("convolve", <<0, 0>>, 0, xs, w)

\* auto_batch_convolve = jax.vmap(convolve)
auto_batch_convolve(xs, ws) == vmap("convolve", <<0, 0>>, 0, xs, ws)

\* auto_batch_convolve_v2 = jax.vmap(convolve, in_axes=1, out_axes=1)
auto_batch_convolve_v2(xst, wst) == vmap("convolve", <<1, 1>>, 1, xst, wst)

\* batch_convolve_v3 = jax.vmap(convolve, in_axes=[0, None])
batch_convolve_v3(xs, w) == vmap("convolve", <<0, None>>, 0, xs, w)

\* jax.jit(convolve), and jax.vmap of it
jitted_convolve(x, w) == jit("convolve", x, w)

vmap_of_jitted_convolve(xs, ws) == vmap("jitted_convolve", <<0, 0>>, 0, xs, ws)

Apply(fun, a, b) ==
    CASE fun = "convolve" -> convolve(a, b)
      [] fun = "jitted_convolve" -> jitted_convolve(a, b)
      [] fun = "auto_batch_convolve" -> auto_batch_convolve(a, b)

\* a jit that runs fun on the arguments of the first call and keeps the result
trace_values(fun, a, b) == TreeOf(Apply(fun, a, b))

\* jnp.arange(n)
jnp_arange(n) == Array(<<n>>, [i \in 1..n |-> i - 1])

\* the output of a cell, appended to the outputs of the cells before it
Out(cell, out, traced) ==
    outs' = Append(outs, [cell |-> cell, out |-> out, traced |-> traced])

\* x = jnp.arange(5); w = jnp.array([2., 3., 4.]); convolve(x, w)
CellConvolve(x, w) ==
    /\ Len(outs) \in {0, 9}
    /\ Cardinality(DOMAIN programs) < MaxPrograms
    /\ arrays' = [arrays EXCEPT !.x = x, !.w = w]
    /\ outs' = <<[cell |-> "convolve", out |-> convolve(x, w), traced |-> FALSE]>>
    /\ UNCHANGED programs

\* xs = jnp.stack([x, x]); ws = jnp.stack([w, w])
CellStack(rows_x, rows_w) ==
    /\ Len(outs) = 1
    /\ \E r \in {[xs |-> stack(rows_x, 0), ws |-> stack(rows_w, 0)]} :
           /\ arrays' = [arrays EXCEPT !.xs = r.xs, !.ws = r.ws]
           /\ Out("stack", r.xs, FALSE)
    /\ UNCHANGED programs

\* manually_batched_convolve(xs, ws)
CellManuallyBatched ==
    /\ Len(outs) = 2
    /\ Out("manually_batched_convolve",
           manually_batched_convolve(arrays.xs, arrays.ws), FALSE)
    /\ UNCHANGED <<arrays, programs>>

\* manually_vectorized_convolve(xs, ws)
CellManuallyVectorized ==
    /\ Len(outs) = 3
    /\ Out("manually_vectorized_convolve",
           manually_vectorized_convolve(arrays.xs, arrays.ws), FALSE)
    /\ UNCHANGED <<arrays, programs>>

\* auto_batch_convolve(xs, ws)
CellAutoBatch ==
    /\ Len(outs) = 4
    /\ Out("auto_batch_convolve", auto_batch_convolve(arrays.xs, arrays.ws), FALSE)
    /\ UNCHANGED <<arrays, programs>>

\* xst = jnp.transpose(xs); wst = jnp.transpose(ws); auto_batch_convolve_v2(xst, wst)
CellAutoBatchV2 ==
    /\ Len(outs) = 5
    /\ Out("auto_batch_convolve_v2",
           auto_batch_convolve_v2(transpose(arrays.xs), transpose(arrays.ws)), FALSE)
    /\ UNCHANGED <<arrays, programs>>

\* batch_convolve_v3(xs, w)
CellBatchV3 ==
    /\ Len(outs) = 6
    /\ Out("batch_convolve_v3", batch_convolve_v3(arrays.xs, arrays.w), FALSE)
    /\ UNCHANGED <<arrays, programs>>

\* jitted_batch_convolve with a jit that keeps the result of the first call
CellJittedBatchValues ==
    /\ Len(outs) = 7
    /\ \E avals \in {<<arrays.xs.shape, arrays.ws.shape>>} :
       \E program \in {IF avals \in DOMAIN programs THEN programs[avals]
                        ELSE trace_values("auto_batch_convolve", arrays.xs, arrays.ws)} :
           /\ programs' = (avals :> program) @@ programs
           /\ Out("jitted_batch_convolve", Eval(program, <<arrays.xs, arrays.ws>>),
                  avals \notin DOMAIN programs)
    /\ UNCHANGED arrays

\* jitted_batch_convolve = jax.jit(auto_batch_convolve); jitted_batch_convolve(xs, ws)
\* The program staged for the shapes of the arguments is kept and run again on
\* later arguments of these shapes.
CellJittedBatch ==
    /\ Len(outs) = 7
    /\ \E avals \in {<<arrays.xs.shape, arrays.ws.shape>>} :
       \E program \in {IF avals \in DOMAIN programs THEN programs[avals]
                        ELSE trace("auto_batch_convolve", arrays.xs, arrays.ws)} :
           /\ programs' = (avals :> program) @@ programs
           /\ Out("jitted_batch_convolve", Eval(program, <<arrays.xs, arrays.ws>>),
                  avals \notin DOMAIN programs)
    /\ UNCHANGED arrays

\* jax.vmap(jax.jit(convolve))(xs, ws), the other order of wrapping
CellVmapOfJitted ==
    /\ Len(outs) = 8
    /\ Out("vmap_of_jitted_convolve",
           vmap_of_jitted_convolve(arrays.xs, arrays.ws), FALSE)
    /\ UNCHANGED <<arrays, programs>>

(***************************************************************************)
(* Haiku.  hk.transform(f) gives init and apply, which run f inside a      *)
(* frame holding the params, the state and the rng of the call;            *)
(* hk.get_parameter, hk.get_state, hk.set_state and hk.next_rng_key read   *)
(* and write the frame.  A module is written as the frame it leaves, with  *)
(* its return value in `out`.                                              *)
(***************************************************************************)
Frame(params, state, rng, is_init) ==
    [params |-> params, state |-> state, initial |-> <<>>, rng |-> rng,
     is_init |-> is_init, keys |-> <<>>, printed |-> <<>>, out |-> "None",
     raised |-> "", given |-> [params |-> params, state |-> state]]

\* hk.next_rng_key(): the next key of the frame's sequence; an error when the
\* call was given no rng
hk_next_rng_key(fr) ==
    IF fr.raised # "" THEN fr
    ELSE IF fr.rng = NoKey THEN [fr EXCEPT !.raised = "ValueError"]
    ELSE CHOOSE after \in {[fr EXCEPT !.rng = nxt.seq, !.keys = Append(@, nxt.key)] :
                             nxt \in {next_rng_key(fr.rng)}} : TRUE

\* hk.get_parameter(name, ..., init): the frame in which the parameter exists
get_parameter(fr, name, init) ==
    IF fr.raised # "" \/ name \in DOMAIN fr.params THEN fr
    ELSE IF fr.is_init THEN [fr EXCEPT !.params = (name :> init) @@ @]
    ELSE [fr EXCEPT !.raised = "ValueError"]

\* hk.get_state(name, ..., init): the frame in which the state exists
get_state(fr, name, init) ==
    IF fr.raised # "" \/ name \in DOMAIN fr.state THEN fr
    ELSE IF fr.is_init
    THEN [fr EXCEPT !.state = (name :> init) @@ @, !.initial = (name :> init) @@ @]
    ELSE [fr EXCEPT !.raised = "ValueError"]

\* hk.set_state(name, value)
set_state(fr, name, value) == [fr EXCEPT !.state = (name :> value) @@ @]

\* return value
Returning(fr, value) == [fr EXCEPT !.out = value]

\* stateful_f without its hk.set_state line
stateful_f_stateless(fr, x) ==
    LET with_counter == get_state(fr, "counter", 1)
        with_both == get_parameter(with_counter, "multiplier", 1)
    IN  IF with_both.raised # "" THEN with_both
        ELSE Returning(with_both, x + with_both.params["multiplier"]
                                        * with_both.state["counter"])

\* stateful_f whose hk.set_state also writes into the state it was given
stateful_f_in_place(fr, x) ==
    LET with_counter == get_state(fr, "counter", 1)
        with_both == get_parameter(with_counter, "multiplier", 1)
        counter == with_both.state["counter"]
    IN  IF with_both.raised # "" THEN with_both
        ELSE [Returning(set_state(with_both, "counter", counter + 1),
                        x + with_both.params["multiplier"] * counter)
                 EXCEPT !.given.state = ("counter" :> counter + 1) @@ @]

\* def stateful_f(x)
stateful_f(fr, x) ==
    LET with_counter == get_state(fr, "counter", 1)
        with_both == get_parameter(with_counter, "multiplier", 1)
        counter == with_both.state["counter"]
        multiplier == with_both.params["multiplier"]
    IN  IF with_both.raised # "" THEN with_both
        ELSE Returning(set_state(with_both, "counter", counter + 1),
                       x + multiplier * counter)

\* hk.initializers.TruncatedNormal: the elements are drawn with the key; here
\* they are small integers that the key determines
TruncatedNormal(k, shape) ==
    CHOOSE drawn \in {Array(shape, [e \in 1..Size(shape) |->
                                      ((Mantissa(bits[1]) + e * e) % 5) - 2]) :
                         bits \in {random_bits(k, 1)}} : TRUE

\* jnp.ones(shape)
ones(shape) == Array(shape, [e \in 1..Size(shape) |-> 1])

\* jnp.dot(x, w) + b for a matrix x, a matrix w and a vector b
linear(x, w, b) ==
    CHOOSE y \in
        {Array(<<xv.shape[1], wv.shape[2]>>,
            [e \in 1..(xv.shape[1] * wv.shape[2]) |->
                LET idx == Index(<<xv.shape[1], wv.shape[2]>>, e)
                IN  SumSeq([j \in 1..xv.shape[2] |->
                               At(xv, <<idx[1], j - 1>>) * At(wv, <<j - 1, idx[2]>>)])
                      + At(bv, <<idx[2]>>)]) :
         xv \in {x}, wv \in {w}, bv \in {b}} : TRUE

\* MyLinear1(output_size=2).__call__ with a Bernoulli draw added to the output
MyLinear1WithNoise(fr, x) ==
    CHOOSE after \in UNION
        {{IF with_b.raised # "" THEN with_b
          ELSE Returning(with_b,
                   linear(x, with_b.params["w"],
                          IF bernoulli(with_b.keys[Len(with_b.keys)])
                          THEN with_b.params["b"] ELSE Array(<<2>>, <<0, 0>>))) :
          with_b \in {hk_next_rng_key(get_parameter(with_w, "b", ones(<<2>>)))}} :
         with_w \in
            {IF fr.is_init /\ "w" \notin DOMAIN fr.params
             THEN CHOOSE made \in
                     {get_parameter(drew, "w",
                         TruncatedNormal(drew.keys[Len(drew.keys)],
                                         <<x.shape[2], 2>>)) :
                      drew \in {hk_next_rng_key(fr)}} : TRUE
             ELSE get_parameter(fr, "w", ones(<<x.shape[2], 2>>))}} : TRUE

\* MyLinear1(output_size=2).__call__; w_init draws with hk.next_rng_key() when
\* init creates w
MyLinear1(fr, x) ==
    CHOOSE after \in UNION
        {{IF with_b.raised # "" THEN with_b
          ELSE Returning(with_b, linear(x, with_b.params["w"], with_b.params["b"])) :
          with_b \in {get_parameter(with_w, "b", ones(<<2>>))}} :
         with_w \in
            {IF fr.is_init /\ "w" \notin DOMAIN fr.params
             THEN CHOOSE made \in
                     {get_parameter(drew, "w",
                         TruncatedNormal(drew.keys[Len(drew.keys)],
                                         <<x.shape[2], 2>>)) :
                      drew \in {hk_next_rng_key(fr)}} : TRUE
             ELSE get_parameter(fr, "w", ones(<<x.shape[2], 2>>))}} : TRUE

\* HkRandom2.__call__: key1 = hk.next_rng_key(); the sample drawn with it
HkRandom2(fr, x) ==
    CHOOSE after \in
        {IF drew.raised # "" THEN drew
         ELSE Returning(drew, bernoulli(drew.keys[Len(drew.keys)])) :
         drew \in {hk_next_rng_key(fr)}} : TRUE

\* HkRandomNest.__call__ with p2 drawn with the key of the nested module
HkRandomNestSharedKey(fr, x) ==
    CHOOSE after \in
        {IF inner.raised # "" THEN inner
         ELSE [inner EXCEPT !.printed = Append(@, <<inner.out, inner.out>>),
                            !.keys = <<@[1], @[1]>>,
                            !.out = "None"] :
         inner \in {HkRandom2(fr, x)}} : TRUE

\* HkRandomNest.__call__ drawing from PRNGKey(0) when the call has no rng
HkRandomNestDefaultKey(fr, x) ==
    CHOOSE after \in UNION
        {{[inner EXCEPT
              !.printed = Append(@, <<inner.out,
                                      bernoulli(drew.keys[Len(drew.keys)])>>),
              !.out = "None"] :
          inner \in {HkRandom2(drew, x)}} :
         drew \in {hk_next_rng_key(IF fr.rng = NoKey
                                   THEN [fr EXCEPT !.rng = PRNGKey(0)] ELSE fr)}} : TRUE

\* HkRandomNest.__call__: key2 = hk.next_rng_key(), p1 from HkRandom2, p2
\* drawn with key2; it prints the pair (p1, p2) and returns nothing
HkRandomNest(fr, x) ==
    CHOOSE after \in UNION
        {{IF inner.raised # "" THEN inner
          ELSE [inner EXCEPT
                   !.printed = Append(@, <<inner.out,
                                           bernoulli(drew.keys[Len(drew.keys)])>>),
                   !.out = "None"] :
          inner \in {IF drew.raised # "" THEN drew ELSE HkRandom2(drew, x)}} :
         drew \in {hk_next_rng_key(fr)}} : TRUE

\* the function given to hk.transform, called in a frame
Call(fun, fr, x) ==
    CASE fun = "stateful_f" -> stateful_f(fr, x)
      [] fun = "MyLinear1" -> MyLinear1(fr, x)
      [] fun = "HkRandomNest" -> HkRandomNest(fr, x)

\* what a call of init or apply hands back, or `raised`
Result(fr, params, state) ==
    [params |-> params, state |-> state, out |-> fr.out, raised |-> fr.raised,
     printed |-> fr.printed, keys |-> fr.keys, given |-> fr.given]

\* hk.transform(fun).init(rng, x), hk.transform_with_state(fun).init(rng, x):
\* the parameters created and the initial values of the state
transform_init(fun, rng, x) ==
    CHOOSE res \in {Result(fr, fr.params, fr.initial) :
                      fr \in {Call(fun, Frame(<<>>, <<>>, rng, TRUE), x)}} : TRUE

\* an apply that draws with a key split off the one it was given
transform_apply_split(fun, params, state, rng, x) ==
    CHOOSE res \in {Result(fr, params, fr.state) :
                      fr \in {Call(fun, Frame(params, state,
                                              IF rng = NoKey THEN NoKey
                                              ELSE next_rng_key(rng).key, FALSE), x)}} :
        TRUE

\* hk.transform(fun).apply(params, rng, x) and, with a state,
\* hk.transform_with_state(fun).apply(params, state, rng, x)
transform_apply(fun, params, state, rng, x) ==
    CHOOSE res \in {Result(fr, params, fr.state) :
                      fr \in {Call(fun, Frame(params, state, rng, FALSE), x)}} : TRUE

\* hk.without_apply_rng(...).apply(params, x): apply with no rng
without_apply_rng(fun, params, state, x) ==
    transform_apply(fun, params, state, NoKey, x)

\* forward.apply(params, x=x, rng=apply_rng_key) with the key in `subkey`
HaikuApply ==
    /\ subkey # NoKey
    /\ \E res \in {transform_apply("HkRandomNest", <<>>, <<>>, subkey, 1)} :
           uses' = Append(uses, Use("apply", subkey, 1, res.printed[1], subkey))
    /\ UNCHANGED <<key, new_key, subkey, subkeys>>

\* the globals of the Haiku notebook before its first cell
NoGlobals ==
    [rng_key |-> NoKey, fn |-> "", params |-> <<>>, state |-> <<>>, x |-> 0,
     applies |-> 0]

\* an init or apply, and what it was given and handed back
HkCall(fn, kind, rng, x, res) ==
    /\ Len(hk_calls) < MaxHaikuCalls
    /\ hk_calls' = Append(hk_calls,
           [fn |-> fn, kind |-> kind, rng |-> rng, x |-> x, params |-> hk.params,
            state |-> hk.state, i |-> hk.applies + 1, res |-> res])

\* rng_key = jax.random.PRNGKey(42)
CellRngKey(sd) ==
    /\ hk.rng_key = NoKey
    /\ hk' = [hk EXCEPT !.rng_key = PRNGKey(sd)]
    /\ UNCHANGED hk_calls

\* params, state = stateful_forward.init(x=sample_x, rng=rng_key)
CellStatefulInit(x) ==
    /\ hk.rng_key # NoKey /\ hk.fn = ""
    /\ \E res \in {transform_init("stateful_f", hk.rng_key, x)} :
           /\ HkCall("stateful_f", "init", hk.rng_key, x, res)
           /\ hk' = [hk EXCEPT !.fn = "stateful_f", !.x = x,
                               !.params = res.params, !.state = res.state]

\* output, state = stateful_forward.apply(params, state, x=sample_x)
CellStatefulApply ==
    /\ hk.fn = "stateful_f"
    /\ \E res \in {without_apply_rng("stateful_f", hk.params, hk.state, hk.x)} :
           /\ HkCall("stateful_f", "apply", NoKey, hk.x, res)
           /\ hk' = [hk EXCEPT !.state = res.state, !.applies = @ + 1]

\* output, _ = stateful_forward.apply(params, state, x=sample_x): the state
\* returned is dropped; params and state are what the call left of them
CellStatefulApplyAgain ==
    /\ hk.fn = "stateful_f"
    /\ \E res \in {without_apply_rng("stateful_f", hk.params, hk.state, hk.x)} :
           /\ HkCall("stateful_f", "apply", NoKey, hk.x, res)
           /\ hk' = [hk EXCEPT !.params = res.given.params, !.state = res.given.state]

\* params = forward_linear1.init(rng=rng_key, x=dummy_x)
CellLinearInit(x) ==
    /\ hk.rng_key # NoKey /\ hk.fn = ""
    /\ \E res \in {transform_init("MyLinear1", hk.rng_key, x)} :
           /\ HkCall("MyLinear1", "init", hk.rng_key, x, res)
           /\ hk' = [hk EXCEPT !.fn = "MyLinear1", !.x = x, !.params = res.params]

\* output_1 = forward_linear1.apply(params=params, x=sample_x, rng=rng_key)
CellLinearApply(x, rng) ==
    /\ hk.fn = "MyLinear1"
    /\ \E res \in {transform_apply("MyLinear1", hk.params, <<>>, rng, x)} :
           HkCall("MyLinear1", "apply", rng, x, res)
    /\ UNCHANGED hk

\* output = forward_without_rng.apply(x=sample_x, params=params)
CellLinearApplyWithoutRng(x) ==
    /\ hk.fn = "MyLinear1"
    /\ \E res \in {without_apply_rng("MyLinear1", hk.params, <<>>, x)} :
           HkCall("MyLinear1", "apply", NoKey, x, res)
    /\ UNCHANGED hk

\* x = jnp.array(1.); params = forward.init(rng_key, x=x)
CellForwardInit ==
    /\ hk.rng_key # NoKey /\ hk.fn = ""
    /\ \E res \in {transform_init("HkRandomNest", hk.rng_key, 1)} :
           /\ HkCall("HkRandomNest", "init", hk.rng_key, 1, res)
           /\ hk' = [hk EXCEPT !.fn = "HkRandomNest", !.x = 1, !.params = res.params]

\* forward.apply with a key split off rng_key
CellForwardApplySplit ==
    /\ hk.fn = "HkRandomNest"
    /\ \E res \in {transform_apply_split("HkRandomNest", hk.params, <<>>,
                                         hk.rng_key, hk.x)} :
           HkCall("HkRandomNest", "apply", hk.rng_key, hk.x, res)
    /\ UNCHANGED hk

\* prediction = forward.apply(params, x=x, rng=rng_key)
CellForwardApply ==
    /\ hk.fn = "HkRandomNest"
    /\ \E res \in {transform_apply("HkRandomNest", hk.params, <<>>, hk.rng_key, hk.x)} :
           HkCall("HkRandomNest", "apply", hk.rng_key, hk.x, res)
    /\ UNCHANGED hk

\* rng_key, apply_rng_key = jax.random.split(rng_key)
\* forward.apply(params, x=x, rng=apply_rng_key)
CellForwardSplitApply ==
    /\ hk.fn = "HkRandomNest"
    /\ \E r \in {split(hk.rng_key, 2)} :
       \E res \in {transform_apply("HkRandomNest", hk.params, <<>>, r.keys[2], hk.x)} :
           /\ HkCall("HkRandomNest", "apply", r.keys[2], hk.x, res)
           /\ hk' = [hk EXCEPT !.rng_key = r.keys[1]]

\* hk.without_apply_rng(forward).apply(params, x=x)
CellForwardApplyWithoutRng ==
    /\ hk.fn = "HkRandomNest"
    /\ \E res \in {without_apply_rng("HkRandomNest", hk.params, <<>>, hk.x)} :
           HkCall("HkRandomNest", "apply", NoKey, hk.x, res)
    /\ UNCHANGED hk

(***************************************************************************)
(* numpy.random: one global generator, the Mersenne Twister MT19937, that  *)
(* every draw advances.  Words are pairs <<high 16 bits, low 16 bits>>.    *)
(***************************************************************************)
\* a & b on uint32
AndW(a, b) ==
    << (a[1] + b[1] - Xor16(a[1], b[1])) \div 2,
       (a[2] + b[2] - Xor16(a[2], b[2])) \div 2 >>

\* w >> n on uint32
ShiftR(w, n) ==
    IF n >= 16 THEN <<0, w[1] \div 2^(n - 16)>>
    ELSE <<w[1] \div 2^n, ((w[1] % 2^n) * 2^(16 - n)) + (w[2] \div 2^n)>>

\* w << n on uint32, n < 16
ShiftL(w, n) ==
    <<((w[1] * 2^n) % Half) + (w[2] \div 2^(16 - n)), (w[2] * 2^n) % Half>>

\* the product of two 16-bit numbers as a uint32
Mul16(c, y) ==
    LET p1 == c * (y \div 256)
        p0 == c * (y % 256)
        t == ((p1 % 256) * 256) + (p0 % Half)
    IN  <<(p1 \div 256) + (p0 \div Half) + (t \div Half), t % Half>>

\* a * b on uint32
MulW(a, b) ==
    AddW(Mul16(a[2], b[2]),
         <<(Mul16(a[1], b[2])[2] + Mul16(a[2], b[1])[2]) % Half, 0>>)

\* RK_STATE_LEN and the offset M of MT19937
RK_STATE_LEN == 624

MT_M == 397

\* 1812433253, the multiplier of the seeding recurrence
SeedMultiplier == <<27655, 35173>>

\* 0x9908b0df, 0x9d2c5680 and 0xefc60000
MATRIX_A == <<39176, 45279>>

TemperMaskB == <<40236, 22144>>

TemperMaskC == <<61382, 0>>

\* no generator state yet
NoState == [key |-> <<>>, pos |-> 0]

\* mt19937_seed(state, seed): key[pos] = seed;
\* seed = 1812433253 * (seed ^ (seed >> 30)) + pos + 1, for pos = 0..623.
\* The n passes of the loop from st on, as the first half of them, then the
\* rest.
RECURSIVE mt19937_seed_loop(_, _)
mt19937_seed_loop(st, n) ==
    IF n = 0 THEN st
    ELSE IF n = 1
    THEN [key |-> Append(st.key, st.seed),
          seed |-> AddW(MulW(SeedMultiplier, XorW(st.seed, ShiftR(st.seed, 30))),
                        Word(st.pos + 1)),
          pos |-> st.pos + 1]
    ELSE CHOOSE done \in
             {mt19937_seed_loop(half, n - (n \div 2)) :
              half \in {mt19937_seed_loop(st, n \div 2)}} : TRUE

mt19937_seed(sd) ==
    [key |-> mt19937_seed_loop([key |-> <<>>, seed |-> Word(sd), pos |-> 0],
                               RK_STATE_LEN).key,
     pos |-> RK_STATE_LEN]

\* mt19937_gen(state): the next 624 words, computed in place, for kk = 0..623:
\* y = (key[kk] & 0x80000000) | (key[kk + 1] & 0x7fffffff);
\* key[kk] = key[kk + M] ^ (y >> 1) ^ (-(y & 1) & 0x9908b0df)
RECURSIVE mt19937_gen_loop(_, _)
mt19937_gen_loop(st, n) ==
    IF n = 0 THEN st
    ELSE IF n = 1
    THEN CHOOSE done \in
             {[key |-> [st.key EXCEPT ![st.pos + 1] =
                          XorW(XorW(st.key[((st.pos + MT_M) % RK_STATE_LEN) + 1],
                                    ShiftR(y, 1)),
                               IF y[2] % 2 = 1 THEN MATRIX_A ELSE <<0, 0>>)],
               pos |-> st.pos + 1] :
              y \in {<<((st.key[st.pos + 1][1] \div 32768) * 32768)
                          + (st.key[((st.pos + 1) % RK_STATE_LEN) + 1][1] % 32768),
                       st.key[((st.pos + 1) % RK_STATE_LEN) + 1][2]>>}} : TRUE
    ELSE CHOOSE done \in
             {mt19937_gen_loop(half, n - (n \div 2)) :
              half \in {mt19937_gen_loop(st, n \div 2)}} : TRUE

mt19937_gen(st) ==
    [key |-> mt19937_gen_loop([key |-> st.key, pos |-> 0], RK_STATE_LEN).key,
     pos |-> 0]

\* the tempering of one word
temper(y0) ==
    CHOOSE y4 \in
        {XorW(y3, ShiftR(y3, 18)) :
         y3 \in {XorW(y2, AndW(ShiftL(y2, 15), TemperMaskC)) :
                 y2 \in {XorW(y1, AndW(ShiftL(y1, 7), TemperMaskB)) :
                         y1 \in {XorW(y0, ShiftR(y0, 11))}}}} : TRUE

\* mt19937_next(state): the next 32 bits and the state after them
mt19937_next(st) ==
    CHOOSE r \in
        {[state |-> [ready EXCEPT !.pos = @ + 1],
          value |-> temper(ready.key[ready.pos + 1])] :
         ready \in {IF st.pos = RK_STATE_LEN THEN mt19937_gen(st) ELSE st}} : TRUE

\* mt19937_next_double: a = next >> 5, b = next >> 6 and the double
\* (a * 67108864 + b) / 9007199254740992, held as <<a, b>>
mt19937_next_double(st) ==
    CHOOSE r \in UNION
        {{[state |-> second.state,
           value |-> <<(first.value[1] * 2048) + (first.value[2] \div 32),
                       (second.value[1] * 1024) + (second.value[2] \div 64)>>] :
          second \in {mt19937_next(first.state)}} :
         first \in {mt19937_next(st)}} : TRUE

\* np.random.seed(sd)
np_random_seed(sd) == mt19937_seed(sd)

\* np.random.uniform(): low + (high - low) * random_sample() with low = 0.0
\* and high = 1.0, the double drawn from the global generator
np_random_uniform(st) == mt19937_next_double(st)

\* def bar(): return np.random.uniform()
bar(st) == np_random_uniform(st)

\* def baz(): return np.random.uniform()
baz(st) == np_random_uniform(st)

\* bar() + 2 * baz() on doubles <<a, b>> = (a * 2^26 + b) / 2^53: the
\* doubling is exact, the sum is rounded to 53 significant bits, ties to even
double_add_twice(u, v) ==
    LET low == u[2] + (2 * v[2])
        hi == u[1] + (2 * v[1]) + (low \div 2^26)
        lo == low % 2^26
        unit == IF hi < 2^27 THEN 1 ELSE IF hi < 2^28 THEN 2 ELSE 4
        rem == lo % unit
        kept == lo - rem
        up == (2 * rem > unit) \/ (2 * rem = unit /\ (kept \div unit) % 2 = 1)
        rounded == kept + (IF up THEN unit ELSE 0)
    IN  <<hi + (rounded \div 2^26), rounded % 2^26>>

\* jax.random.uniform(key): the float32 m / 2^23 for the top 23 bits m of the
\* random bits drawn with the key, held as <<m>>
uniform(k) == <<Mantissa(random_bits(k, 1)[1])>>

\* bar + 2 * baz on float32 <<m>> = m / 2^23: rounded to 24 significant bits
float_add_twice(u, v) ==
    LET total == u[1] + (2 * v[1])
    IN  IF total < 2^24 THEN <<total>>
        ELSE <<total - (total % 2) + (IF total % 4 = 3 THEN 2 ELSE 0)>>

\* not run yet
NotRun == <<>>

\* no call of foo() in progress
NoFoo ==
    [model |-> "", seed |-> 0, bar |-> NotRun, baz |-> NotRun, first |-> "",
     keys |-> <<>>]

\* np.random.seed(0), then foo() is called
CellSeed(sd) ==
    /\ foo_run = NoFoo
    /\ Len(foo_runs) < MaxFooRuns
    /\ np_random' = np_random_seed(sd)
    /\ foo_run' = [NoFoo EXCEPT !.model = "numpy", !.seed = sd]
    /\ UNCHANGED foo_runs

\* bar() runs
CallBar ==
    /\ foo_run.model = "numpy" /\ foo_run.bar = NotRun
    /\ \E r \in {bar(np_random)} :
           /\ np_random' = r.state
           /\ foo_run' = [foo_run EXCEPT !.bar = r.value,
                              !.first = IF foo_run.baz = NotRun THEN "bar" ELSE @]
    /\ UNCHANGED foo_runs

\* baz() runs
CallBaz ==
    /\ foo_run.model = "numpy" /\ foo_run.baz = NotRun
    /\ \E r \in {baz(np_random)} :
           /\ np_random' = r.state
           /\ foo_run' = [foo_run EXCEPT !.baz = r.value,
                              !.first = IF foo_run.bar = NotRun THEN "baz" ELSE @]
    /\ UNCHANGED foo_runs

\* foo with keys: key = random.PRNGKey(sd), one subkey each for bar and baz
CellFooKeys(sd) ==
    /\ foo_run = NoFoo
    /\ Len(foo_runs) < MaxFooRuns
    /\ foo_run' = [NoFoo EXCEPT !.model = "jax", !.seed = sd,
                                !.keys = split(PRNGKey(sd), 2).keys]
    /\ UNCHANGED <<np_random, foo_runs>>

\* bar(subkey) runs: random.uniform with bar's subkey
CallBarKey ==
    /\ foo_run.model = "jax" /\ foo_run.bar = NotRun
    /\ foo_run' = [foo_run EXCEPT !.bar = uniform(foo_run.keys[1]),
                       !.first = IF foo_run.baz = NotRun THEN "bar" ELSE @]
    /\ UNCHANGED <<np_random, foo_runs>>

\* baz(subkey) runs: random.uniform with baz's subkey
CallBazKey ==
    /\ foo_run.model = "jax" /\ foo_run.baz = NotRun
    /\ foo_run' = [foo_run EXCEPT !.baz = uniform(foo_run.keys[2]),
                       !.first = IF foo_run.bar = NotRun THEN "baz" ELSE @]
    /\ UNCHANGED <<np_random, foo_runs>>

\* foo() with the first draw weighted once and the second twice, whichever of
\* bar and baz drew first
FooReturnByDraw ==
    /\ foo_run.bar # NotRun /\ foo_run.baz # NotRun
    /\ \E drawn \in {IF foo_run.first = "bar" THEN <<foo_run.bar, foo_run.baz>>
                     ELSE <<foo_run.baz, foo_run.bar>>} :
           foo_runs' = Append(foo_runs,
               [model |-> foo_run.model, seed |-> foo_run.seed,
                first |-> foo_run.first,
                value |-> IF foo_run.model = "numpy"
                          THEN double_add_twice(drawn[1], drawn[2])
                          ELSE float_add_twice(drawn[1], drawn[2])])
    /\ foo_run' = NoFoo
    /\ UNCHANGED np_random

\* return bar() + 2 * baz()
FooReturn ==
    /\ foo_run.bar # NotRun /\ foo_run.baz # NotRun
    /\ foo_runs' = Append(foo_runs,
           [model |-> foo_run.model, seed |-> foo_run.seed, first |-> foo_run.first,
            value |-> IF foo_run.model = "numpy"
                      THEN double_add_twice(foo_run.bar, foo_run.baz)
                      ELSE float_add_twice(foo_run.bar, foo_run.baz)])
    /\ foo_run' = NoFoo
    /\ UNCHANGED np_random

Init ==
    /\ enable_jaxlib_build = FALSE
    /\ analyzed = <<>>
    /\ cache = {}
    /\ calls = <<>>
    /\ fresh = 0
    /\ loop = NoLoop
    /\ finished = <<>>
    /\ global_list = <<>>
    /\ stdout = <<>>
    /\ jaxprs = <<>>
    /\ arrays = [x |-> Array(<<0>>, <<>>), w |-> Array(<<0>>, <<>>),
                 xs |-> Array(<<0>>, <<>>), ws |-> Array(<<0>>, <<>>)]
    /\ outs = <<>>
    /\ programs = <<>>
    /\ hk = NoGlobals
    /\ hk_calls = <<>>
    /\ np_random = NoState
    /\ foo_run = NoFoo
    /\ foo_runs = <<>>
    /\ key = NoKey
    /\ new_key = NoKey
    /\ subkey = NoKey
    /\ subkeys = <<>>
    /\ uses = <<>>
    /\ seed = 42
    /\ pc = <<"start", 0>>

(***************************************************************************)
(* A session: the notebook's key-consuming statements run in any order,    *)
(* for any seed, up to MaxUses consuming calls.                            *)
(***************************************************************************)
SessionStart ==
    /\ pc = <<"start", 0>>
    /\ \E sd \in Seeds : CellPRNGKey(sd) /\ seed' = sd
    /\ pc' = <<"session", 0>>
    /\ UNCHANGED othervars

InSession == pc = <<"session", 0>> /\ UNCHANGED <<seed, pc, othervars>>

SessionPRNGKey == InSession /\ CellPRNGKey(seed)

SessionNormalKey == InSession /\ Len(uses) < MaxUses /\ CellNormalKey

SessionSplitNewKey == InSession /\ Len(uses) < MaxUses /\ CellSplitNewKey

SessionNormalSubkey == InSession /\ Len(uses) < MaxUses /\ CellNormalSubkey

SessionSplitKey == InSession /\ Len(uses) < MaxUses /\ CellSplitKey

SessionSplit43 == InSession /\ Len(uses) < MaxUses /\ CellSplit43

SessionSplit3 == InSession /\ Len(uses) < MaxUses /\ CellSplit3

SessionNormalKey3 == InSession /\ Len(uses) < MaxUses /\ CellNormalKey3

Next ==
    \/ SessionStart
    \/ SessionPRNGKey
    \/ SessionNormalKey
    \/ SessionSplitNewKey
    \/ SessionNormalSubkey
    \/ SessionSplitKey
    \/ SessionSplit43
    \/ SessionSplit3
    \/ SessionNormalKey3

Spec == Init /\ [][Next]_vars

(***************************************************************************)
(* The key/subkey discipline: one key, then `key, subkey = split(key)` and *)
(* the subkey handed to one random function (random notebook) or to one    *)
(* apply call (Haiku notebook), again and again.                           *)
(***************************************************************************)
DisciplineStart ==
    /\ pc = <<"start", 0>>
    /\ \E sd \in Seeds : CellPRNGKey(sd) /\ seed' = sd
    /\ \E body \in {"normal", "apply"} : pc' = <<body, 0>>
    /\ UNCHANGED othervars

DisciplineSplit ==
    /\ pc \in {<<"normal", 0>>, <<"apply", 0>>}
    /\ Len(uses) < 2 * MaxIter
    /\ CellSplitKey
    /\ pc' = <<pc[1], 1>>
    /\ UNCHANGED <<seed, othervars>>

\* The loop body with the key itself, not the subkey, handed to the sampler.
DisciplineNormalKey ==
    /\ pc = <<"normal", 1>>
    /\ CellNormalKey
    /\ pc' = <<"normal", 0>>
    /\ UNCHANGED <<seed, othervars>>

DisciplineNormal ==
    /\ pc = <<"normal", 1>>
    /\ CellNormalSubkey
    /\ pc' = <<"normal", 0>>
    /\ UNCHANGED <<seed, othervars>>

DisciplineApply ==
    /\ pc = <<"apply", 1>>
    /\ HaikuApply
    /\ pc' = <<"apply", 0>>
    /\ UNCHANGED <<seed, othervars>>

NextDiscipline ==
    \/ DisciplineStart
    \/ DisciplineSplit
    \/ DisciplineNormal
    \/ DisciplineApply

SpecDiscipline == Init /\ [][NextDiscipline]_vars

(***************************************************************************)
(* The random-numbers notebook, its JAX statements in the order of the     *)
(* cells, for the seed sd in place of the literal 42.                      *)
(***************************************************************************)
NotebookStart ==
    /\ pc = <<"start", 0>>
    /\ \E sd \in Seeds : seed' = sd
    /\ pc' = <<"cell", 1>>
    /\ UNCHANGED <<rngvars, othervars>>

Statement(n, A) ==
    /\ pc = <<"cell", n>>
    /\ A
    /\ pc' = <<"cell", n + 1>>
    /\ UNCHANGED <<seed, othervars>>

NotebookCell7 == Statement(1, CellPRNGKey(seed))

NotebookCell8 == Statement(2, CellNormalKey) \/ Statement(3, CellNormalKey)

NotebookCell9 ==
    \/ Statement(4, CellSplitNewKey)
    \/ Statement(5, CellDelKey)
    \/ Statement(6, CellNormalSubkey)
    \/ Statement(7, CellDelSubkey)
    \/ Statement(8, CellKeyNewKey)

NotebookCell12 == Statement(9, CellSplitKey)

NotebookCell13 == Statement(10, CellSplit43)

NotebookCell17 ==
    \/ Statement(11, CellPRNGKey(seed))
    \/ Statement(12, CellSplit3)
    \/ Statement(13, CellNormalSubkeys)
    \/ Statement(14, CellPRNGKey(seed))
    \/ Statement(15, CellNormalKey3)

\* where the notebook stands when its last statement has run
NotebookEnd == <<"cell", 16>>

NextNotebook ==
    \/ NotebookStart
    \/ NotebookCell7
    \/ NotebookCell8
    \/ NotebookCell9
    \/ NotebookCell12
    \/ NotebookCell13
    \/ NotebookCell17

SpecNotebook == Init /\ [][NextNotebook]_vars

(***************************************************************************)
(* Builds of `lib`, each under the flag as last set.                       *)
(***************************************************************************)
BuildFlag == BuildSetFlag /\ UNCHANGED <<rngvars, seed, pc, jitvars, effectvars, docvars>>

Build == BuildAnalyze /\ UNCHANGED <<rngvars, seed, pc, jitvars, effectvars, docvars>>

NextBuild ==
    \/ BuildFlag
    \/ Build

SpecBuild == Init /\ [][NextBuild]_vars

(***************************************************************************)
(* The jitting notebook: its calls of jitted functions, in any order and   *)
(* for several arguments.                                                  *)
(***************************************************************************)
XValues == {-1, 0, 1, 10}

NValues == {-1, 0, 2, 20}

NotJit == UNCHANGED <<rngvars, seed, pc, buildvars, effectvars, docvars>>

JitFJit ==
    Len(calls) < MaxJitCalls /\ NotJit /\ \E x \in XValues : CallFJit(x)

JitGJit ==
    /\ Len(calls) < MaxJitCalls /\ NotJit
    /\ \E x \in XValues, n \in NValues : CallGJit(x, n)

JitFJitCorrect ==
    Len(calls) < MaxJitCalls /\ NotJit /\ \E x \in XValues : CallFJitCorrect(x)

JitGJitCorrect ==
    /\ Len(calls) < MaxJitCalls /\ NotJit
    /\ \E x \in XValues, n \in NValues : CallGJitCorrect(x, n)

JitGJitDecorated ==
    /\ Len(calls) < MaxJitCalls /\ NotJit
    /\ \E x \in XValues, n \in NValues : CallGJitDecorated(x, n)

NextJit ==
    \/ JitFJit
    \/ JitGJit
    \/ JitFJitCorrect
    \/ JitGJitCorrect
    \/ JitGJitDecorated

SpecJit == Init /\ [][NextJit]_vars

(***************************************************************************)
(* Longer runs of calls of the functions jitted without and with static    *)
(* arguments, for what is compiled and what is found in the cache.         *)
(***************************************************************************)
ArraySizes == {3, 1000000}

CacheXValues == {-1, 10}

CacheNValues == {2, 20}

CacheSeluJit ==
    Len(calls) < MaxCacheCalls /\ NotJit /\ \E n \in ArraySizes : CallSeluJit(n)

CacheFJitCorrect ==
    /\ Len(calls) < MaxCacheCalls /\ NotJit
    /\ \E x \in CacheXValues : CallFJitCorrect(x)

CacheGJitCorrect ==
    /\ Len(calls) < MaxCacheCalls /\ NotJit
    /\ \E x \in CacheXValues, n \in CacheNValues : CallGJitCorrect(x, n)

NextJitCache ==
    \/ CacheSeluJit
    \/ CacheFJitCorrect
    \/ CacheGJitCorrect

SpecJitCache == Init /\ [][NextJitCache]_vars

(***************************************************************************)
(* Runs of g_inner_jitted and its variants, one after the other.           *)
(***************************************************************************)
LoopNValues == {0, 2, 20}

LoopStart ==
    /\ Len(finished) < MaxRuns /\ NotJit
    /\ \E via \in LoopFunctions, n \in LoopNValues : GInnerStart(via, 10, n)

LoopJitted == NotJit /\ IterGInnerJitted

LoopPartial == NotJit /\ IterGInnerJittedPartial

LoopLambda == NotJit /\ IterGInnerJittedLambda

LoopNormal == NotJit /\ IterGInnerJittedNormal

LoopReturn == NotJit /\ GInnerReturn

NextJitLoop ==
    \/ LoopStart
    \/ LoopJitted
    \/ LoopPartial
    \/ LoopLambda
    \/ LoopNormal
    \/ LoopReturn

SpecJitLoop == Init /\ [][NextJitLoop]_vars

(***************************************************************************)
(* log2 and log2_with_print under jax.make_jaxpr and jax.jit, called again *)
(* and again.                                                              *)
(***************************************************************************)
SideEffectFunctions == {"log2", "log2_with_print"}

SideArguments == {FloatScalar(3), FloatScalar(8), Scalar(8)}

SideMakeJaxpr ==
    /\ Len(calls) + Len(jaxprs) < MaxSideCalls
    /\ UNCHANGED <<rngvars, seed, pc, buildvars, docvars>>
    /\ \E code \in SideEffectFunctions : MakeJaxpr(code, 3)

SideJitted ==
    /\ Len(calls) + Len(jaxprs) < MaxSideCalls
    /\ UNCHANGED <<rngvars, seed, pc, buildvars, docvars>>
    /\ \E code \in SideEffectFunctions, actual \in SideArguments :
           CallJitted(code, actual)

NextSideEffects ==
    \/ SideMakeJaxpr
    \/ SideJitted

SpecSideEffects == Init /\ [][NextSideEffects]_vars

(***************************************************************************)
(* The vectorization notebook, cell after cell, on vectors and batches of  *)
(* several sizes; after the last cell it is run again on other arrays,     *)
(* with the programs jitted_batch_convolve has compiled by then.           *)
(***************************************************************************)
Lengths == {2, 3, 5}

BatchSizes == {1, 2}

XVectors(n) == {jnp_arange(n), Array(<<n>>, [i \in 1..n |-> i * i - 3])}

WVectors == {Array(<<3>>, <<2, 3, 4>>), Array(<<3>>, <<1, 0, -1>>)}

NotVmap ==
    UNCHANGED <<rngvars, seed, pc, buildvars, jitvars, effectvars, haikuvars, foovars>>

VmapConvolve ==
    /\ NotVmap
    /\ \E n \in Lengths : \E x \in XVectors(n), w \in WVectors : CellConvolve(x, w)

VmapStack ==
    /\ NotVmap
    /\ \E b \in BatchSizes :
       \E rows_x \in [1..b -> XVectors(len(arrays.x))], rows_w \in [1..b -> WVectors] :
           CellStack(rows_x, rows_w)

VmapManuallyBatched == CellManuallyBatched /\ NotVmap

VmapManuallyVectorized == CellManuallyVectorized /\ NotVmap

VmapAutoBatch == CellAutoBatch /\ NotVmap

VmapAutoBatchV2 == CellAutoBatchV2 /\ NotVmap

VmapBatchV3 == CellBatchV3 /\ NotVmap

VmapJittedBatch == CellJittedBatch /\ NotVmap

VmapOfJitted == CellVmapOfJitted /\ NotVmap

NextVmap ==
    \/ VmapConvolve
    \/ VmapStack
    \/ VmapManuallyBatched
    \/ VmapManuallyVectorized
    \/ VmapAutoBatch
    \/ VmapAutoBatchV2
    \/ VmapBatchV3
    \/ VmapJittedBatch
    \/ VmapOfJitted

SpecVmap == Init /\ [][NextVmap]_vars

(***************************************************************************)
(* The Haiku notebook: rng_key is made, then one of the transformed        *)
(* functions is initialised and applied again and again.                   *)
(***************************************************************************)
HaikuSeeds == {42, 0, 1}

StatefulXValues == {5, 0, -2}

\* sample_x and sample_x_2
LinearXValues == {Array(<<1, 3>>, <<1, 2, 3>>), Array(<<2, 3>>, <<4, 5, 6, 7, 8, 9>>)}

NotHaiku ==
    UNCHANGED <<rngvars, seed, pc, buildvars, jitvars, effectvars, vmapvars, foovars>>

HaikuRngKey == NotHaiku /\ \E sd \in HaikuSeeds : CellRngKey(sd)

HaikuStatefulInit == NotHaiku /\ \E x \in StatefulXValues : CellStatefulInit(x)

HaikuStatefulApply == NotHaiku /\ CellStatefulApply

HaikuStatefulApplyAgain == NotHaiku /\ CellStatefulApplyAgain

HaikuLinearInit == NotHaiku /\ CellLinearInit(Array(<<1, 3>>, <<1, 2, 3>>))

HaikuLinearApply ==
    /\ NotHaiku
    /\ \E x \in LinearXValues, rng \in {hk.rng_key, PRNGKey(7)} : CellLinearApply(x, rng)

HaikuLinearApplyWithoutRng ==
    NotHaiku /\ \E x \in LinearXValues : CellLinearApplyWithoutRng(x)

HaikuForwardInit == NotHaiku /\ CellForwardInit

HaikuForwardApply == NotHaiku /\ CellForwardApply

HaikuForwardSplitApply == NotHaiku /\ CellForwardSplitApply

HaikuForwardApplyWithoutRng == NotHaiku /\ CellForwardApplyWithoutRng

NextHaiku ==
    \/ HaikuRngKey
    \/ HaikuStatefulInit
    \/ HaikuStatefulApply
    \/ HaikuStatefulApplyAgain
    \/ HaikuLinearInit
    \/ HaikuLinearApply
    \/ HaikuLinearApplyWithoutRng
    \/ HaikuForwardInit
    \/ HaikuForwardApply
    \/ HaikuForwardSplitApply
    \/ HaikuForwardApplyWithoutRng

SpecHaiku == Init /\ [][NextHaiku]_vars

(***************************************************************************)
(* foo() = bar() + 2 * baz(), again and again: with np.random after        *)
(* np.random.seed, and with a subkey each for bar and baz; bar and baz run *)
(* in either order.                                                        *)
(***************************************************************************)
FooSeeds == {0, 1, 42}

\* the calls of one behaviour are calls of the program with one seed
OneSeed(sd) == \A i \in 1..Len(foo_runs) : foo_runs[i].seed = sd

NotFoo ==
    UNCHANGED <<rngvars, seed, pc, buildvars, jitvars, effectvars, vmapvars, haikuvars>>

FooSeed == NotFoo /\ \E sd \in FooSeeds : OneSeed(sd) /\ CellSeed(sd)

FooBar == NotFoo /\ CallBar

FooBaz == NotFoo /\ CallBaz

FooKeys == NotFoo /\ \E sd \in FooSeeds : OneSeed(sd) /\ CellFooKeys(sd)

FooBarKey == NotFoo /\ CallBarKey

FooBazKey == NotFoo /\ CallBazKey

FooDone == NotFoo /\ FooReturn

NextFoo ==
    \/ FooSeed
    \/ FooBar
    \/ FooBaz
    \/ FooKeys
    \/ FooBarKey
    \/ FooBazKey
    \/ FooDone

SpecFoo == Init /\ [][NextFoo]_vars

(***************************************************************************)
(* convolve(x, w) on its own: the first cell of the vectorization notebook *)
(* for jnp.arange(n) and for every short vector over a few elements, empty *)
(* ones included.                                                          *)
(***************************************************************************)
Elements == {-1, 0, 2}

ConvolveArange ==
    /\ NotVmap
    /\ \E n \in 0..(MaxLen + 1), w \in WVectors : CellConvolve(jnp_arange(n), w)

ConvolveVector ==
    /\ NotVmap
    /\ \E n \in 0..MaxLen :
       \E v \in [1..n -> Elements], w \in WVectors : CellConvolve(Array(<<n>>, v), w)

NextConvolve ==
    \/ ConvolveArange
    \/ ConvolveVector

SpecConvolve == Init /\ [][NextConvolve]_vars

(***************************************************************************)
(* Properties of the build rule                                            *)
(***************************************************************************)
IsJaxlibTarget(label) == label[1] \in {"jaxlib", "jaxlib/mlir"}

\* C1: with //jax:enable_jaxlib_build enabled the deps of `lib` are
\* //jax:version plus every one of the twelve jaxlib targets; with it
\* disabled they are //jax:version alone, with no jaxlib target; no build
\* resolves to a partial subset of the jaxlib targets.
C1_LibDepsFollowFlag ==
    /\ Cardinality(jaxlib_deps) = 12
    /\ \A t \in jaxlib_deps : IsJaxlibTarget(t)
    /\ \A i \in 1..Len(analyzed) :
           LET deps == analyzed[i].deps
               jaxlib == {t \in deps : IsJaxlibTarget(t)}
           IN  /\ deps \ jaxlib = {jax_version}
               /\ analyzed[i].flag => jaxlib = jaxlib_deps
               /\ ~analyzed[i].flag => jaxlib = {}

\* `lib` has been analysed with the flag enabled and with it disabled.
C1_Witness_BothOutcomes ==
    \E i, j \in 1..Len(analyzed) :
        /\ analyzed[i].flag /\ Cardinality(analyzed[i].deps) = 13
        /\ ~analyzed[j].flag /\ Cardinality(analyzed[j].deps) = 1

(***************************************************************************)
(* Properties of the random-number keys                                    *)
(***************************************************************************)
UsesOf(op) == {i \in 1..Len(uses) : uses[i].op = op}

C3_SplitDeterministicDistinct ==
    \A i \in UsesOf("split") :
        /\ uses[i].after = uses[i].k
        /\ Len(uses[i].out) = uses[i].n
        /\ \A a, b \in 1..uses[i].n : a # b => uses[i].out[a] # uses[i].out[b]
        /\ \A a \in 1..uses[i].n : uses[i].out[a] # uses[i].k
        /\ \A j \in UsesOf("split") :
               (uses[j].k = uses[i].k /\ uses[j].n = uses[i].n)
                   => uses[j].out = uses[i].out

\* The same key has been split twice into two and once into 43.
C3_Witness_SplitAgain ==
    /\ Len(uses) = 3
    /\ \A i \in 1..3 : uses[i].op = "split" /\ uses[i].k = key
    /\ {uses[i].n : i \in 1..3} = {2, 43}

\* C4: under the key/subkey discipline no key is ever used twice: every key
\* that was split or handed to a sampling or apply call was used exactly
\* once, and the key and subkey about to be used have not been used before.
C4_DisciplineNeverReusesKey ==
    /\ \A i, j \in 1..Len(uses) : uses[i].k = uses[j].k => i = j
    /\ \A i \in 1..Len(uses) :
           /\ uses[i].k # key
           /\ (pc[2] = 1 => uses[i].k # subkey)

\* Three iterations of the loop have run: three splits, three consumed subkeys.
C4_Witness_ThreeIterations ==
    /\ Len(uses) = 6
    /\ Cardinality(UsesOf("split")) = 3
    /\ pc[2] = 0

\* C5: the key passed to random.normal(key, shape=(3,)) in the last example
\* is consumed by no other sampling call or split of the notebook.
C5_FinalKeyNotReused ==
    pc = NotebookEnd =>
        \A i \in UsesOf("normal") :
            uses[i].n = 3 =>
                \A j \in 1..Len(uses) : j # i => uses[j].k # uses[i].k

(***************************************************************************)
(* Properties of jax.jit as the jitting notebook uses it                   *)
(***************************************************************************)
CallsVia(via) == {i \in 1..Len(calls) : calls[i].via = via}

\* C6: a call of f_jit fails with a ConcretizationTypeError that names the
\* argument x, a call of g_jit with one that names n, whatever the
\* arguments (f_jit(10) and g_jit(10, 20) among them); nothing is returned
\* and nothing is compiled.
C6_BranchOnTracedValueRaises ==
    /\ \A i \in CallsVia("f_jit") :
           /\ calls[i].status = "ConcretizationTypeError"
           /\ calls[i].names = {"x"}
           /\ calls[i].out = NoResult /\ ~calls[i].compiled
    /\ \A i \in CallsVia("g_jit") :
           /\ calls[i].status = "ConcretizationTypeError"
           /\ calls[i].names = {"n"}
           /\ calls[i].out = NoResult /\ ~calls[i].compiled

\* f_jit(10) and then g_jit(10, 20) have been called.
C6_Witness_NotebookCalls ==
    /\ Len(calls) = 2
    /\ calls[1].via = "f_jit" /\ calls[1].args = <<10>> /\ calls[1].traced
    /\ calls[2].via = "g_jit" /\ calls[2].args = <<10, 20>> /\ calls[2].traced

\* C7: with the argument that is branched on static, the jitted call raises
\* nothing and returns what the un-jitted function returns: f_jit_correct(x)
\* is x if x > 0 else 2 * x, g_jit_correct(x, n) and g_jit_decorated(x, n)
\* are g(x, n), on a first call and on a call served from the cache alike.
C7_StaticArgsAgreeWithUnjitted ==
    /\ \A i \in CallsVia("f_jit_correct") :
           LET x == calls[i].args[1]
           IN  /\ calls[i].status = "ok"
               /\ calls[i].out = IF x > 0 THEN x ELSE 2 * x
               /\ calls[i].out = Unjitted("f", calls[i].args).val.c
    /\ \A i \in CallsVia("g_jit_correct") \cup CallsVia("g_jit_decorated") :
           /\ calls[i].status = "ok"
           /\ Unjitted("g", calls[i].args).status = "ok"
           /\ calls[i].out = Unjitted("g", calls[i].args).val.c

\* g_jit_correct(10, 20) returned 30 and compiled; g_jit_correct(-1, 20) was
\* then served from the cache and returned 19.
C7_Witness_FirstCallAndCacheHit ==
    /\ Len(calls) = 2
    /\ \A i \in 1..2 : calls[i].via = "g_jit_correct"
    /\ calls[1].args = <<10, 20>> /\ calls[1].compiled /\ calls[1].out = 30
    /\ calls[2].args = <<-1, 20>> /\ ~calls[2].compiled /\ calls[2].out = 19

\* C8: of the calls of selu_jit with arguments of one shape and type, the
\* first traces and compiles selu and every later one runs the cached code
\* without running the Python function: exactly one compilation.
C8_CompiledOncePerShapeAndType ==
    \A i \in CallsVia("selu_jit") :
        LET same == {j \in CallsVia("selu_jit") : calls[j].avals = calls[i].avals}
        IN  /\ calls[i].status = "ok"
            /\ calls[i].traced = calls[i].compiled
            /\ calls[i].compiled <=> (\A j \in same : i <= j)
            /\ Cardinality({j \in same : calls[j].compiled}) = 1

\* selu_jit has been called four times on arrays of the same shape and type.
C8_Witness_FourCallsSameShape ==
    /\ Len(calls) = 4
    /\ \A i \in 1..4 : calls[i].via = "selu_jit" /\ calls[i].args = <<1000000>>

RunCalls(run) == {i \in 1..Len(calls) : calls[i].run = run}

\* C10: jax.jit(unjitted_loop_body) in the loop compiles in its first
\* iteration and finds the compiled function in the cache ever after, while
\* jax.jit(partial(unjitted_loop_body)) and jax.jit(lambda x: ...) in the
\* loop compile in every iteration: n compilations for n iterations.
C10_JitInLoopCompilations ==
    /\ \A i \in CallsVia("g_inner_jitted_normal") :
           calls[i].compiled <=> (\A j \in CallsVia("g_inner_jitted_normal") : i <= j)
    /\ \A i \in CallsVia("g_inner_jitted_partial") \cup
                 CallsVia("g_inner_jitted_lambda") : calls[i].compiled
    /\ \A r \in 1..Len(finished) :
           LET n == finished[r].n
               compiled == {i \in RunCalls(finished[r].run) : calls[i].compiled}
           IN  /\ Cardinality(RunCalls(finished[r].run)) = n
               /\ finished[r].via \in {"g_inner_jitted_partial",
                                        "g_inner_jitted_lambda"}
                      => Cardinality(compiled) = n
               /\ (finished[r].via = "g_inner_jitted_normal" /\ n > 0)
                      => Cardinality(compiled) =
                            IF \E q \in 1..(r - 1) :
                                   /\ finished[q].via = "g_inner_jitted_normal"
                                   /\ finished[q].n > 0
                            THEN 0 ELSE 1

\* g_inner_jitted_partial(10, 20) and g_inner_jitted_normal(10, 20) have
\* both returned.
C10_Witness_TwentyIterations ==
    /\ Len(finished) = 2
    /\ finished[1].via = "g_inner_jitted_partial" /\ finished[1].n = 20
    /\ finished[2].via = "g_inner_jitted_normal" /\ finished[2].n = 20
    /\ finished[2].out = 30

(***************************************************************************)
(* Properties of side effects under tracing                                *)
(***************************************************************************)
EffectOps == {"global_list.append", "print"}

TracedCalls(code) == {i \in CallsVia(code) : calls[i].traced}

MadeJaxprs(code) == {i \in 1..Len(jaxprs) : jaxprs[i].code = code}

\* C11: the side effects of log2 and log2_with_print happen once per trace
\* and in no call that runs the cached function: a jitted call traces exactly
\* when no earlier call had its shape and type, global_list and the printed
\* lines have one entry per trace, every entry is a tracer and not the
\* argument, and no jaxpr has an operation for the side effect.
C11_SideEffectsOnlyWhenTracing ==
    /\ \A code \in SideEffectFunctions : \A i \in CallsVia(code) :
           calls[i].traced <=>
               ~\E j \in CallsVia(code) : j < i /\ calls[j].avals = calls[i].avals
    /\ Len(global_list) =
           Cardinality(TracedCalls("log2")) + Cardinality(MadeJaxprs("log2"))
    /\ Len(stdout) = Cardinality(TracedCalls("log2_with_print"))
                        + Cardinality(MadeJaxprs("log2_with_print"))
    /\ \A i \in 1..Len(global_list) : global_list[i] = Tracer("x")
    /\ \A i \in 1..Len(stdout) : stdout[i] = Tracer("x")
    /\ \A i \in 1..Len(jaxprs) :
           /\ \A e \in 1..Len(jaxprs[i].jaxpr) :
                  jaxprs[i].jaxpr[e].prim \notin EffectOps
           /\ [e \in 1..Len(jaxprs[i].jaxpr) |-> jaxprs[i].jaxpr[e].prim]
                  = <<"log", "log", "div">>

\* make_jaxpr(log2)(3.0) printed the jaxpr of the notebook, and log2 under
\* jit was then called three times on 3.0: global_list has two tracers.
C11_Witness_TracedOnceCalledThrice ==
    /\ Len(jaxprs) = 1 /\ Len(calls) = 3
    /\ jaxprs[1].jaxpr = << [prim |-> "log", ins |-> <<"a">>, out |-> "b"],
                            [prim |-> "log", ins |-> <<"2.0">>, out |-> "c"],
                            [prim |-> "div", ins |-> <<"b", "c">>, out |-> "d"] >>
    /\ \A i \in 1..3 : calls[i].via = "log2" /\ calls[i].args = <<3>>
    /\ ~calls[3].traced
    /\ Len(global_list) = 2

(***************************************************************************)
(* Properties of jax.vmap on convolve                                      *)
(***************************************************************************)
\* the output of the latest run of a cell
OutOf(cell) == outs[CHOOSE i \in 1..Len(outs) : outs[i].cell = cell].out

Ran(cell) == \E i \in 1..Len(outs) : outs[i].cell = cell

\* an array was returned, of rows convolve(xs[b], ws[b])
RowsAreConvolve(out, xs, ws) ==
    /\ out.raised = ""
    /\ out.shape = <<xs.shape[1], xs.shape[2] - 2>>
    /\ \A b \in 0..(xs.shape[1] - 1) :
           getitem(out, b) = convolve(getitem(xs, b), getitem(ws, b))

\* C12: on every batch xs of shape (B, N) and ws of shape (B, 3),
\* manually_batched_convolve, manually_vectorized_convolve and
\* jax.vmap(convolve) return the same (B, N-2) array, and its row b is
\* convolve(xs[b], ws[b]).
C12_VmapEqualsManualVersions ==
    Ran("auto_batch_convolve") =>
        /\ RowsAreConvolve(OutOf("auto_batch_convolve"), arrays.xs, arrays.ws)
        /\ OutOf("manually_batched_convolve") = OutOf("auto_batch_convolve")
        /\ OutOf("manually_vectorized_convolve") = OutOf("auto_batch_convolve")

\* The same for vectors of three elements or more.
C12_VmapEqualsManualVersionsFromLengthThree ==
    Ran("auto_batch_convolve") /\ arrays.xs.shape[2] >= 3 =>
        /\ RowsAreConvolve(OutOf("auto_batch_convolve"), arrays.xs, arrays.ws)
        /\ OutOf("manually_batched_convolve") = OutOf("auto_batch_convolve")
        /\ OutOf("manually_vectorized_convolve") = OutOf("auto_batch_convolve")

\* C13: jit and vmap compose: on every batch, jax.jit(jax.vmap(convolve))
\* returns what jax.vmap(convolve) returns, on the call that compiles and on
\* the calls that run a compiled program, and so does jax.vmap(jax.jit(convolve)).
C13_JitAndVmapCompose ==
    /\ Ran("jitted_batch_convolve") =>
           /\ OutOf("jitted_batch_convolve") = OutOf("auto_batch_convolve")
           /\ OutOf("jitted_batch_convolve") =
                  auto_batch_convolve(arrays.xs, arrays.ws)
    /\ Ran("vmap_of_jitted_convolve") =>
           OutOf("vmap_of_jitted_convolve") = OutOf("auto_batch_convolve")

\* jitted_batch_convolve ran a program compiled for an earlier batch of two
\* rows of five, and vmap of the jitted convolve ran too.
C13_Witness_CompiledProgramReused ==
    /\ Ran("vmap_of_jitted_convolve")
    /\ ~outs[8].traced
    /\ arrays.xs.shape = <<2, 5>>
    /\ getitem(arrays.xs, 0) # getitem(arrays.xs, 1)
    /\ OutOf("jitted_batch_convolve").shape = <<2, 3>>

\* C14: in_axes=1, out_axes=1 only moves the batch axis: on every batch,
\* auto_batch_convolve_v2 on the transposed arrays returns the transpose of
\* what jax.vmap(convolve) returns.
C14_AxesOnlyRelocateBatch ==
    Ran("auto_batch_convolve_v2") =>
        /\ OutOf("auto_batch_convolve").raised = ""
        /\ OutOf("auto_batch_convolve_v2") = transpose(OutOf("auto_batch_convolve"))
        /\ OutOf("auto_batch_convolve_v2").shape =
               <<arrays.xs.shape[2] - 2, arrays.xs.shape[1]>>

\* auto_batch_convolve_v2 ran on a batch of two different rows of five.
C14_Witness_TransposedBatch ==
    /\ Ran("auto_batch_convolve_v2")
    /\ arrays.xs.shape = <<2, 5>>
    /\ getitem(arrays.xs, 0) # getitem(arrays.xs, 1)
    /\ getitem(arrays.ws, 0) # getitem(arrays.ws, 1)
    /\ OutOf("auto_batch_convolve_v2").shape = <<3, 2>>

\* C15: with in_axes=[0, None] the one w is shared by the whole batch: on
\* every xs of B rows, batch_convolve_v3(xs, w) returns what jax.vmap(convolve)
\* returns on xs and B copies of w, and its row b is convolve(xs[b], w).
C15_UnbatchedArgumentShared ==
    Ran("batch_convolve_v3") =>
        LET copies == stack([b \in 1..arrays.xs.shape[1] |-> arrays.w], 0)
        IN  /\ OutOf("batch_convolve_v3") = auto_batch_convolve(arrays.xs, copies)
            /\ RowsAreConvolve(OutOf("batch_convolve_v3"), arrays.xs, copies)

\* batch_convolve_v3 ran on two different rows of five, with a w that is not
\* the second row of ws.
C15_Witness_SharedWeights ==
    /\ Ran("batch_convolve_v3")
    /\ arrays.xs.shape = <<2, 5>>
    /\ getitem(arrays.xs, 0) # getitem(arrays.xs, 1)
    /\ getitem(arrays.ws, 1) # arrays.w
    /\ OutOf("batch_convolve_v3").shape = <<2, 3>>

(***************************************************************************)
(* Properties of the Haiku notebook                                        *)
(***************************************************************************)
HkCalls(fn, kind) ==
    {c \in 1..Len(hk_calls) : hk_calls[c].fn = fn /\ hk_calls[c].kind = kind}

\* C16: stateful_f: init gives counter = 1 and multiplier = 1; an apply
\* returns x + multiplier * counter for the counter of the state passed in,
\* and a state whose counter is one more; with the state threaded from call
\* to call the k-th apply returns x + k and leaves the counter at k + 1.
C16_StatefulCounter ==
    /\ \A c \in HkCalls("stateful_f", "init") :
           /\ hk_calls[c].res.raised = ""
           /\ hk_calls[c].res.state["counter"] = 1
           /\ hk_calls[c].res.params["multiplier"] = 1
    /\ \A c \in HkCalls("stateful_f", "apply") :
           LET call == hk_calls[c]
           IN  /\ call.res.raised = ""
               /\ call.res.out = call.x + call.params["multiplier"] * call.state["counter"]
               /\ call.res.state["counter"] = call.state["counter"] + 1
               /\ call.res.out = call.x + call.i
               /\ call.res.state["counter"] = call.i + 1
               /\ call.res.params = call.params
    /\ hk.fn = "stateful_f" => hk.state["counter"] = hk.applies + 1

\* The loop of the notebook: x = 5, three applies, outputs 6, 7 and 8.
C16_Witness_ThreeApplies ==
    /\ Len(hk_calls) = 4
    /\ hk_calls[1].fn = "stateful_f" /\ hk_calls[1].x = 5
    /\ \A k \in 1..3 : hk_calls[k + 1].res.out = 5 + k
    /\ hk.state["counter"] = 4

\* the calls of forward.init and forward.apply that were given a key
ForwardCalls ==
    {c \in 1..Len(hk_calls) :
        hk_calls[c].fn = "HkRandomNest" /\ hk_calls[c].rng # NoKey}

C18_NextRngKeysUnique ==
    \A c \in ForwardCalls :
        LET call == hk_calls[c]
        IN  /\ Len(call.res.keys) = 2
            /\ call.res.keys[1] # call.res.keys[2]
            /\ \A i \in 1..2 : call.res.keys[i] # call.rng
            /\ \A d \in ForwardCalls :
                   hk_calls[d].rng = call.rng => hk_calls[d].res.keys = call.res.keys

\* init and apply with PRNGKey(42): key2, then key1, the same two in both
\* calls; an apply with another key draws with other keys.
C18_Witness_TwoKeysPerCall ==
    /\ Len(hk_calls) >= 3
    /\ hk_calls[1].fn = "HkRandomNest" /\ hk_calls[1].rng = PRNGKey(42)
    /\ hk_calls[2].kind = "apply" /\ hk_calls[2].rng = PRNGKey(42)
    /\ hk_calls[2].res.keys[1] = <<<<3896, 55571>>, <<4086, 35161>>>>
    /\ hk_calls[2].res.keys[2] # hk_calls[2].res.keys[1]
    /\ hk_calls[1].res.keys = hk_calls[2].res.keys
    /\ hk_calls[3].rng \notin {NoKey, PRNGKey(42)}
    /\ hk_calls[3].res.keys # hk_calls[2].res.keys

\* C19: the output of MyLinear1 depends on params and x only: applies with
\* the same params and x return the same output whatever rng they are given,
\* and the apply of hk.without_apply_rng, given no rng, returns that output
\* too.
C19_LinearIgnoresRng ==
    \A c \in HkCalls("MyLinear1", "apply") :
        /\ hk_calls[c].res.raised = ""
        /\ hk_calls[c].res.out =
               linear(hk_calls[c].x, hk_calls[c].params["w"], hk_calls[c].params["b"])
        /\ \A d \in HkCalls("MyLinear1", "apply") :
               hk_calls[c].params = hk_calls[d].params /\ hk_calls[c].x = hk_calls[d].x
                   => hk_calls[c].res.out = hk_calls[d].res.out

\* sample_x applied with rng_key, with another key and without rng: one
\* output
C19_Witness_ThreeWaysOneOutput ==
    /\ Len(hk_calls) = 4
    /\ hk_calls[1].fn = "MyLinear1" /\ hk_calls[1].kind = "init"
    /\ hk_calls[2].rng = hk.rng_key
    /\ hk_calls[3].rng = PRNGKey(7)
    /\ hk_calls[4].rng = NoKey
    /\ \A c \in 2..4 :
           /\ hk_calls[c].x = Array(<<1, 3>>, <<1, 2, 3>>)
           /\ hk_calls[c].res.out = hk_calls[2].res.out
           /\ hk_calls[c].res.out.shape = <<1, 2>>

\* C20: a stochastic module cannot be applied without rng: the apply of
\* forward that is given no rng key ends in an error at the first
\* hk.next_rng_key(); it hands out no key, draws and prints no sample and
\* returns nothing.
C20_StochasticNeedsRng ==
    \A c \in HkCalls("HkRandomNest", "apply") :
        hk_calls[c].rng = NoKey
            => /\ hk_calls[c].res.raised = "ValueError"
               /\ hk_calls[c].res.keys = <<>>
               /\ hk_calls[c].res.printed = <<>>
               /\ hk_calls[c].res.out = "None"

\* forward initialised and applied with rng_key, which prints a pair, then
\* applied without rng
C20_Witness_AppliedWithoutRng ==
    /\ Len(hk_calls) = 3
    /\ hk_calls[2].fn = "HkRandomNest" /\ hk_calls[2].kind = "apply"
    /\ hk_calls[2].rng # NoKey /\ Len(hk_calls[2].res.printed) = 1
    /\ hk_calls[3].kind = "apply" /\ hk_calls[3].rng = NoKey
    /\ hk_calls[3].res.raised = "ValueError"

\* C21: with the global generator of np.random, foo() = bar() + 2 * baz()
\* after one seed has one value when bar runs first and another when baz
\* runs first; with a subkey each for bar and baz it has one value in either
\* order.
C21_OrderMattersOnlyWithGlobalState ==
    \A i, j \in 1..Len(foo_runs) :
        foo_runs[i].model = foo_runs[j].model /\ foo_runs[i].seed = foo_runs[j].seed
            => /\ foo_runs[i].model = "numpy"
                    => (foo_runs[i].value = foo_runs[j].value
                            <=> foo_runs[i].first = foo_runs[j].first)
               /\ foo_runs[i].model = "jax"
                    => foo_runs[i].value = foo_runs[j].value

\* Seed 0, both orders, both ways: np.random gives the recorded
\* 1.9791922366721637 when bar runs first and 1.812816374227069 when baz
\* does; with keys both orders give one value.
C21_Witness_BothOrders ==
    /\ Len(foo_runs) = 4
    /\ foo_runs[1] = [model |-> "numpy", seed |-> 0, first |-> "bar",
                      value |-> <<265642685, 18882830>>]
    /\ foo_runs[2].model = "numpy" /\ foo_runs[2].seed = 0
    /\ foo_runs[2].first = "baz" /\ foo_runs[2].value # foo_runs[1].value
    /\ foo_runs[3].model = "jax" /\ foo_runs[3].seed = 0 /\ foo_runs[3].first = "bar"
    /\ foo_runs[4].model = "jax" /\ foo_runs[4].seed = 0 /\ foo_runs[4].first = "baz"
    /\ foo_runs[3].value = foo_runs[4].value

C23_ConvolveWindows ==
    Len(outs) = 1 /\ outs[1].cell = "convolve" =>
        LET x == arrays.x
            w == arrays.w
            out == outs[1].out
            n == x.shape[1]
        IN  /\ out.raised = ""
            /\ out.shape = <<IF n > 2 THEN n - 2 ELSE 0>>
            /\ Len(out.data) = (IF n > 2 THEN n - 2 ELSE 0)
            /\ \A i \in 1..(n - 2) :
                   /\ {i - 1, i, i + 1} \subseteq 0..(n - 1)
                   /\ out.data[i] = (x.data[i] * w.data[1])
                                      + (x.data[i + 1] * w.data[2])
                                      + (x.data[i + 2] * w.data[3])
            /\ x.data = <<0, 1, 2, 3, 4>> /\ w.data = <<2, 3, 4>>
                   => out.data = <<11, 20, 29>>

\* the call of the notebook: x = jnp.arange(5), w = [2, 3, 4]
C23_Witness_RecordedCall ==
    /\ Len(outs) = 1 /\ outs[1].cell = "convolve"
    /\ arrays.x = jnp_arange(5)
    /\ arrays.w.data = <<2, 3, 4>>
    /\ outs[1].out = Array(<<3>>, <<11, 20, 29>>)
====
